---- MODULE Spec2Model ----
(***************************************************************************)
(* Retrieval and ranking core of the Rabbi Nachman voice assistant:        *)
(*   - result fusion and budgeted selection   (src/routes/query.js)        *)
(*   - master index rebuild and lookups       (src/services/database.js)   *)
(*   - semantic chunking                      (src/services/chunker.js)    *)
(*   - batch chunk processor                  (src/unnamed/part_007)       *)
(* Each subsystem has its own specification over the shared variables; a   *)
(* specification leaves the other subsystems' variables at their idle      *)
(* values.                                                                 *)
(*                                                                         *)
(* Scores are counted in tenths (0.9 is 9, the +0.3 boost is 3).           *)
(***************************************************************************)
EXTENDS Integers, Sequences, FiniteSets, TLC

VARIABLES
    maxContextEnv,   \* process.env.MAX_CONTEXT_TOKENS: [set |-> BOOLEAN, value |-> Int]
    vectorOut,       \* outcome of vectorSearch.search: [ok, rows]
    masterOut,       \* outcome of masterIndex.search: [ok, rows]
    themeOut,        \* outcome of masterIndex.searchByThemes: [ok, rows]
    llm,             \* generatePreciseAnswer: "not_called" | "ok" | "generation_fails"
    askPc,           \* "idle" | "received" | "responded"
    combinedResults, \* what combineSearchResults returned (<<>> when not reached)
    topChunks,       \* what selectBestChunks returned (<<>> when not reached)
    response,        \* the HTTP response of POST /ask
    fusedAgain,      \* what a second combineSearchResults call on the same streams returned
    textChunks,      \* text_chunks joined with books: id -> [themes, keywords, book_title]
    conflictTarget,  \* how the store treats ON CONFLICT (key_term, index_type)
    masterIndex,     \* the rows of table master_index, in insertion order
    initialIndex,    \* the rows master_index held before any rebuild of this run
    rebuild,         \* per rebuild request: [pc, pending, threw]
    runs,            \* rebuild requests started so far
    observed,        \* the rows the last reader (getPopularThemes, searchByTerm) saw
    snapshots,       \* the index as each finished rebuild left it
    chunkSizeEnv,    \* process.env.CHUNK_SIZE: [set |-> BOOLEAN, value |-> Int]
    overlapEnv,      \* process.env.OVERLAP_PERCENTAGE: [set |-> BOOLEAN, value |-> Int]
    bookData,        \* the extracted book given to chunkBook: [ref, sections]
    sectionChunks,   \* chunkBook's chunks array before addOverlapBetweenChunks
    bookChunks,      \* the chunks chunkBook returned
    chunkerPc,       \* "idle" | "loaded" | "chunked" | "chunked_again"
    runEnv,          \* what the next chunkBook call meets: [uuidSeed, now, analysis]
    previousChunks,  \* the chunks the chunkBook call before the last one returned
    procBook,        \* the book data given to ChunkProcessor.chunkBookData
    procChunks,      \* the chunks chunkBookData returned
    procPc,          \* "idle" | "loaded" | "chunked" | "saving" | "saved"
    inputDir,        \* the files of the input directory still to be processed
    chunksTable,     \* the rows of ChunkProcessor's table chunks, in insertion order
    saveQueue,       \* the chunks saveChunksToDatabase has still to insert
    saveFailed,      \* whether the last saveChunksToDatabase call caught an error
    tableBefore,     \* the rows of chunks when the last saveChunksToDatabase call began
    storeRows,       \* the committed rows of text_chunks as VectorSearchService wrote them
    txRows,          \* the rows inserted by the open transaction of storeChunksBatch
    storeInput,      \* the chunks given to storeChunk / storeChunksBatch
    storePc,         \* "idle" | "ready" | "in_transaction" | "done"
    storeThrew,      \* whether the storing call threw
    storeBefore,     \* the committed rows when the storing call began
    scoreTerms,      \* two index terms to score: [frequency, bookCount] each
    scoreOut,        \* their importance scores (<<>> before they are computed)
    apiCall,         \* one external API call: [kind, pc, attempt, waits, failures]
    batchRun,        \* ChunkProcessor.processAllFiles: [files, pending, log, processedCount, totalChunks, pc]
    extractRun,      \* SefariaExtractor.extractAll: [pending, attempts, extracted, failed, methods_used, pc]
    vectorQuery,     \* one VectorSearchService.search call
    indexCache,      \* MasterIndexService.cache and the clock
    termLookup       \* one MasterIndexService.searchByTerm call

fusionVars == <<maxContextEnv, vectorOut, masterOut, themeOut, llm, askPc,
                combinedResults, topChunks, response, fusedAgain>>

indexVars == <<textChunks, conflictTarget, masterIndex, initialIndex, rebuild, runs,
               observed, snapshots>>

chunkerVars == <<chunkSizeEnv, overlapEnv, bookData, sectionChunks, bookChunks, chunkerPc,
                 runEnv, previousChunks>>

processorVars == <<procBook, procChunks, procPc, inputDir, chunksTable, saveQueue, saveFailed,
                   tableBefore>>

storeVars == <<storeRows, txRows, storeInput, storePc, storeThrew, storeBefore>>

ingestVars == <<chunkerVars, processorVars, storeVars>>

scoreVars == <<scoreTerms, scoreOut>>

retryVars == <<apiCall>>

batchVars == <<batchRun, extractRun>>

serviceVars == <<batchVars, vectorQuery, indexCache, termLookup>>

utilityVars == <<scoreVars, retryVars, serviceVars>>

vars == <<fusionVars, indexVars, ingestVars, utilityVars>>

(***************************************************************************)
(* Bounds of the model.                                                    *)
(***************************************************************************)
NumIds == 2          \* chunks 1..NumIds can be returned by term, theme and vector lookups
MaxBookRows == 21    \* rows a book-name lookup returns (the code's LIMIT is 50)
NumIndexChunks == 2  \* rows of text_chunks the index is built from
MaxRuns == 2         \* rebuild requests per run of the model
MaxWords == 3        \* words of a section's English text given to SemanticChunker
WordLen == 4         \* characters of a word
MaxSentences == 2    \* sentences of a section's text given to ChunkProcessor
NumStoreIds == 2     \* ids of the chunks given to storeChunk / storeChunksBatch
MaxFrequency == 21   \* occurrences of an index term
MaxBookCount == 6    \* distinct books an index term occurs in
MaxBatchFiles == 3   \* files of data/raw in one processAllFiles run
NumSearchChunks == 3 \* rows of text_chunks a similarity search runs over
NumLookupChunks == 2 \* rows of text_chunks the index entries of a lookup refer to
MaxClockMinutes == 12 \* how far the clock of the index cache runs
MaxIndexVersions == 2 \* rebuilds of the master index while the cache lives

(***************************************************************************)
(* Program constants.                                                      *)
(***************************************************************************)
DefaultMaxTokens == 800000   \* parseInt(process.env.MAX_CONTEXT_TOKENS) || 800000
MaxSelected == 20            \* if (selectedChunks.length >= 20) break
MasterBoost == 3             \* combined.get(chunk.id).score += 0.3
MasterBase == 7              \* score: 0.7
ThemeBoost == 2              \* combined.get(chunk.id).score += 0.2
ThemeBase == 5               \* score: 0.5
BookScore == 8               \* searchByBook: 0.8 as score
TermScore == 7               \* getChunksByIds: 0.7 as score
DefaultChunkSize == 10000    \* parseInt(process.env.CHUNK_SIZE) || 10000
DefaultOverlapPercentage == 15   \* parseInt(process.env.OVERLAP_PERCENTAGE) || 15
ToleranceTenths == 12        \* this.maxChunkSize = this.chunkSize * 1.2
CharsPerToken == 4           \* Math.ceil(text.length / 4)
OverlapTokensPerWord == 4    \* Math.floor(overlapTokens / 4)
TARGET_SIZE == 10000         \* const TARGET_SIZE = 10000 (characters)
MaxRetriesDefault == 3     \* fetchWithBackoff(url, options, maxRetries = 3)
BackoffBaseMs == 1000      \* Math.pow(2, attempt) * 1000
JitterRangeMs == 1000      \* Math.random() * 1000
CacheTimeoutMinutes == 5   \* this.cacheTimeout = 5 * 60 * 1000
BatchSize == 50              \* const batchSize = 50

(***************************************************************************)
(* Input data: the chunk store as the three lookups see it.                *)
(***************************************************************************)
BookBase == NumIds + 100           \* ids of the rows of the book lookup
Ids == 1..NumIds
BookIds == (BookBase + 1)..(BookBase + MaxBookRows)
ScoreSet == {3, 6, 9}            \* similarity scores 0.3, 0.6, 0.9

\* token_count column of a stored chunk
TokenOf(id) ==
    IF id > BookBase THEN 10
    ELSE IF id = 1 THEN 200
    ELSE IF id = 2 THEN 150
    ELSE 50

Row(id, score) == [id |-> id, score |-> score, token_count |-> TokenOf(id)]

RECURSIVE SeqOfSet(_)
\* the elements of a set of integers as a sequence in ascending order
SeqOfSet(S) ==
    IF S = {} THEN <<>>
    ELSE LET m == CHOOSE x \in S : \A y \in S : x <= y
         IN <<m>> \o SeqOfSet(S \ {m})

Range(s) == {s[i] : i \in DOMAIN s}

RowsOf(idSeq, score) == [i \in DOMAIN idSeq |-> Row(idSeq[i], score)]

\* vectorSearch.search: distinct rows, ORDER BY distance (score descending)
VectorRowSets ==
    UNION {
        {s \in [1..n -> [id : Ids, score : ScoreSet]] :
            /\ \A i, j \in 1..n : i # j => s[i].id # s[j].id
            /\ \A i \in 1..(n - 1) : s[i].score >= s[i + 1].score}
        : n \in 0..NumIds}

VectorRows(s) == [i \in DOMAIN s |-> Row(s[i].id, s[i].score)]

\* masterIndex.searchByThemes for one theme: getChunksByIds rows, deduplicated
ThemeRowSets == {RowsOf(SeqOfSet(S), TermScore) : S \in SUBSET Ids}

\* masterIndex.search: the rows of a book-name lookup (0.8 as score), or the
\* deduplicated rows of a term lookup (0.7 as score)
MasterRowSets ==
    {RowsOf(SeqOfSet(BookIds), BookScore)}
        \cup {RowsOf(SeqOfSet(S), TermScore) : S \in SUBSET Ids}

Rejected == [ok |-> FALSE, rows |-> <<>>]
Fulfilled(rows) == [ok |-> TRUE, rows |-> rows]

EnvValues ==
    {[set |-> FALSE, value |-> 0]} \cup {[set |-> TRUE, value |-> v] : v \in {0, 300, 400}}

(***************************************************************************)
(* src/routes/query.js                                                     *)
(***************************************************************************)
\* index of the entry of Map m (in insertion order) whose key is id, or 0
MapIndex(m, id) ==
    IF \E i \in DOMAIN m : m[i].id = id
    THEN CHOOSE i \in DOMAIN m : m[i].id = id
    ELSE 0

\* an array in place of the Map: every row is pushed
MapPush(m, rec) == Append(m, rec)

\* Map.set: an existing key keeps its place, a new key goes last
MapSet(m, rec) ==
    LET k == MapIndex(m, rec.id)
    IN IF k = 0 THEN Append(m, rec) ELSE [m EXCEPT ![k] = rec]

RECURSIVE AddVector(_, _)
AddVector(m, rows) ==
    IF rows = <<>> THEN m
    ELSE AddVector(
            MapSet(m, [id |-> Head(rows).id,
                       score |-> Head(rows).score,
                       token_count |-> Head(rows).token_count,
                       source |-> "vector"]),
            Tail(rows))

\* one pass of "boost if present, else insert with a base score"
RECURSIVE AddBoosted(_, _, _, _, _)
AddBoosted(m, rows, boost, base, tag) ==
    IF rows = <<>> THEN m
    ELSE LET c == Head(rows)
             k == MapIndex(m, c.id)
             m2 == IF k # 0
                   THEN [m EXCEPT ![k].score = @ + boost]
                   ELSE Append(m, [id |-> c.id,
                                   score |-> base,
                                   token_count |-> c.token_count,
                                   source |-> tag])
         IN AddBoosted(m2, Tail(rows), boost, base, tag)

RECURSIVE InsertByScore(_, _)
\* insert c after every element whose score is >= c.score (a stable sort step)
InsertByScore(sorted, c) ==
    IF sorted = <<>> THEN <<c>>
    ELSE IF Head(sorted).score >= c.score
         THEN <<Head(sorted)>> \o InsertByScore(Tail(sorted), c)
         ELSE <<c>> \o sorted

\* Array.from(combined.values()) returned without the sort
InsertionOrder(done, todo) == done \o todo

RECURSIVE SortByScoreDesc(_, _)
\* Array.prototype.sort((a, b) => b.score - a.score): stable, descending
SortByScoreDesc(done, todo) ==
    IF todo = <<>> THEN done
    ELSE SortByScoreDesc(InsertByScore(done, Head(todo)), Tail(todo))

\* combineSearchResults with the theme pass inserting new chunks but not boosting
combineNoThemeBoost(masterResults, vectorResults, themeResults) ==
    LET m1 == AddVector(<<>>, vectorResults)
        m2 == AddBoosted(m1, masterResults, MasterBoost, MasterBase, "master")
        m3 == AddBoosted(m2, themeResults, 0, ThemeBase, "theme")
    IN SortByScoreDesc(<<>>, m3)

combineSearchResults(masterResults, vectorResults, themeResults) ==
    LET m1 == AddVector(<<>>, vectorResults)
        m2 == AddBoosted(m1, masterResults, MasterBoost, MasterBase, "master")
        m3 == AddBoosted(m2, themeResults, ThemeBoost, ThemeBase, "theme")
    IN SortByScoreDesc(<<>>, m3)

\* parseInt(process.env.MAX_CONTEXT_TOKENS) || 800000
MaxTokens(env) ==
    IF env.set /\ env.value # 0 THEN env.value ELSE DefaultMaxTokens

RECURSIVE SelectLoopPerChunk(_, _, _, _)
\* selectBestChunks with the budget test on the chunk alone, the running total forgotten
SelectLoopPerChunk(results, maxTokens, totalTokens, selectedChunks) ==
    IF results = <<>> THEN selectedChunks
    ELSE LET chunk == Head(results)
             fits == chunk.token_count < maxTokens
             sel == IF fits THEN Append(selectedChunks, chunk) ELSE selectedChunks
         IN IF Len(sel) >= MaxSelected THEN sel
            ELSE SelectLoopPerChunk(Tail(results), maxTokens, totalTokens, sel)

RECURSIVE SelectLoop(_, _, _, _)
\* the for loop of selectBestChunks
SelectLoop(results, maxTokens, totalTokens, selectedChunks) ==
    IF results = <<>> THEN selectedChunks
    ELSE LET chunk == Head(results)
             fits == totalTokens + chunk.token_count < maxTokens
             sel == IF fits THEN Append(selectedChunks, chunk) ELSE selectedChunks
             tot == IF fits THEN totalTokens + chunk.token_count ELSE totalTokens
         IN IF Len(sel) >= MaxSelected THEN sel
            ELSE SelectLoop(Tail(results), maxTokens, tot, sel)

selectBestChunks(results, env) == SelectLoop(results, MaxTokens(env), 0, <<>>)

(***************************************************************************)
(* src/services/database.js: the master_index table and MasterIndexService *)
(*                                                                         *)
(* Importance scores are counted in ten-thousandths (0.7 is 7000).         *)
(***************************************************************************)
Rebuilders == {1, 2}     \* concurrent POST /api/admin/reindex requests

BookTitleOf(id) == IF id % 2 = 1 THEN "Likutei Moharan" ELSE "Sichot HaRan"

\* the themes and keywords columns a chunk row can hold (NULL reads as <<>>)
ChunkTags ==
    { [themes |-> <<"joie">>, keywords |-> <<>>],
      [themes |-> <<"joie", "foi">>, keywords |-> <<>>],
      [themes |-> <<>>, keywords |-> <<"joie">>],
      [themes |-> <<>>, keywords |-> <<>>] }

ChunkTables ==
    {[id \in 1..NumIndexChunks |->
        [themes |-> f[id].themes, keywords |-> f[id].keywords,
         book_title |-> BookTitleOf(id)]] : f \in [1..NumIndexChunks -> ChunkTags]}

Min(a, b) == IF a <= b THEN a ELSE b

\* calculateImportanceScore with the weights of the two parts exchanged
calculateImportanceScoreSwapped(frequency, bookCount) ==
    LET frequencyScore == Min(frequency * 100, 1000)
        distributionScore == Min(bookCount * 200, 1000)
    IN frequencyScore * 3 + distributionScore * 7

\* calculateImportanceScore without the cap on the frequency part
calculateImportanceScoreUncapped(frequency, bookCount) ==
    LET frequencyScore == frequency * 100
        distributionScore == Min(bookCount * 200, 1000)
    IN frequencyScore * 7 + distributionScore * 3

\* frequencyScore and distributionScore in thousandths, the result in
\* ten-thousandths
calculateImportanceScore(frequency, bookCount) ==
    LET frequencyScore == Min(frequency * 100, 1000)
        distributionScore == Min(bookCount * 200, 1000)
    IN frequencyScore * 7 + distributionScore * 3

extractHebrewEquivalent(term) ==
    IF term = "joie" THEN "simcha"
    ELSE IF term = "foi" THEN "emunah"
    ELSE "null"

\* themeMap / keywordMap: a Map in insertion order, as a sequence of
\* [term, chunks, books, frequency]
TermIndex(map, term) ==
    IF \E i \in DOMAIN map : map[i].term = term
    THEN CHOOSE i \in DOMAIN map : map[i].term = term
    ELSE 0

\* one iteration of "for (const theme of chunk.themes)"
AddOccurrence(map, term, chunkId, bookTitle) ==
    LET k == TermIndex(map, term)
        m == IF k = 0
             THEN Append(map, [term |-> term, chunks |-> <<>>, books |-> <<>>,
                               frequency |-> 0])
             ELSE map
        j == IF k = 0 THEN Len(m) ELSE k
    IN [m EXCEPT
          ![j].chunks = Append(@, chunkId),
          ![j].books = IF bookTitle \in Range(@) THEN @ ELSE Append(@, bookTitle),
          ![j].frequency = @ + 1]

RECURSIVE AddTerms(_, _, _, _)
AddTerms(map, terms, chunkId, bookTitle) ==
    IF terms = <<>> THEN map
    ELSE AddTerms(AddOccurrence(map, Head(terms), chunkId, bookTitle),
                  Tail(terms), chunkId, bookTitle)

RECURSIVE BuildMap(_, _, _, _)
\* the loop "for (const chunk of chunks)" for one of the two maps; rows is the
\* SELECT's result as a sequence of chunk ids
BuildMap(map, rows, chunks, column) ==
    IF rows = <<>> THEN map
    ELSE LET id == Head(rows)
             terms == IF column = "themes" THEN chunks[id].themes ELSE chunks[id].keywords
         IN BuildMap(AddTerms(map, terms, id, chunks[id].book_title),
                     Tail(rows), chunks, column)

IndexEntry(indexType, e) ==
    [index_type |-> indexType,
     key_term |-> e.term,
     hebrew_term |-> extractHebrewEquivalent(e.term),
     related_chunks |-> e.chunks,
     book_references |-> e.books,
     frequency |-> e.frequency,
     importance_score |-> calculateImportanceScore(e.frequency, Len(e.books))]

\* the addIndexEntry calls of buildIndexFromChunks, in order: themes, then keywords
EntriesToInsert(rows, chunks) ==
    LET themeMap == BuildMap(<<>>, rows, chunks, "themes")
        keywordMap == BuildMap(<<>>, rows, chunks, "keywords")
    IN [i \in DOMAIN themeMap |-> IndexEntry("theme", themeMap[i])]
       \o [i \in DOMAIN keywordMap |-> IndexEntry("concept", keywordMap[i])]

\* the orders in which SELECT ... FROM text_chunks (no ORDER BY) can return rows
RowOrders ==
    {s \in [1..NumIndexChunks -> 1..NumIndexChunks] :
        \A i, j \in 1..NumIndexChunks : i # j => s[i] # s[j]}

\* createTables gives master_index no UNIQUE constraint on (key_term,
\* index_type): idx_master_index_key is a plain index. The INSERT of
\* addIndexEntry names that pair as its conflict target, so the store has no
\* arbiter for it: PostgreSQL rejects such a statement ("rejected"); a store
\* that runs it never detects a conflict and inserts a new row ("unenforced").
ConflictTargets == {"rejected", "unenforced"}

IdleRebuild == [pc |-> "idle", pending |-> <<>>, threw |-> FALSE]

IndexIdle ==
    /\ textChunks = <<>>
    /\ conflictTarget = "rejected"
    /\ masterIndex = <<>>
    /\ initialIndex = <<>>
    /\ rebuild = [p \in Rebuilders |-> IdleRebuild]
    /\ runs = 0
    /\ observed = <<>>
    /\ snapshots = <<>>

ScoreIdle ==
    /\ scoreTerms = <<>>
    /\ scoreOut = <<>>

NoCall == [kind |-> "none", pc |-> "idle", attempt |-> 0, waits |-> <<>>, failures |-> <<>>]

RetryIdle == apiCall = NoCall

NoBatch ==
    [files |-> <<>>, pending |-> <<>>, log |-> <<>>, processedCount |-> 0,
     totalChunks |-> 0, pc |-> "idle"]

NoExtraction ==
    [pending |-> <<>>, attempts |-> <<>>, extracted |-> <<>>, failed |-> <<>>,
     methods_used |-> <<>>, pc |-> "idle"]

BatchIdle == batchRun = NoBatch /\ extractRun = NoExtraction

NoQuery == [pc |-> "idle"]

VectorQueryIdle == vectorQuery = NoQuery

NoCache == [pc |-> "idle"]

CacheIdle == indexCache = NoCache

NoLookup == [pc |-> "idle"]

LookupIdle == termLookup = NoLookup

ServiceIdle == BatchIdle /\ VectorQueryIdle /\ CacheIdle /\ LookupIdle

UtilityIdle == ScoreIdle /\ RetryIdle /\ ServiceIdle

Unset == [set |-> FALSE, value |-> 0]
SetTo(v) == [set |-> TRUE, value |-> v]

ChunkerIdle ==
    /\ chunkSizeEnv = Unset
    /\ overlapEnv = Unset
    /\ bookData = [ref |-> "none", sections |-> <<>>]
    /\ sectionChunks = <<>>
    /\ bookChunks = <<>>
    /\ chunkerPc = "idle"
    /\ runEnv = [uuidSeed |-> 0, now |-> 0, analysis |-> "ok"]
    /\ previousChunks = <<>>

ProcessorIdle ==
    /\ procBook = [name |-> "none", format |-> "sections", sections |-> <<>>]
    /\ procChunks = <<>>
    /\ procPc = "idle"
    /\ inputDir = <<>>
    /\ chunksTable = <<>>
    /\ saveQueue = <<>>
    /\ saveFailed = FALSE
    /\ tableBefore = <<>>

StoreIdle ==
    /\ storeRows = <<>>
    /\ txRows = <<>>
    /\ storeInput = <<>>
    /\ storePc = "idle"
    /\ storeThrew = FALSE
    /\ storeBefore = <<>>

IngestIdle == ChunkerIdle /\ ProcessorIdle /\ StoreIdle

NoResponse == [status |-> 0, kind |-> "none", chunks_used |-> 0]

FusionInit ==
    /\ maxContextEnv \in EnvValues
    /\ vectorOut \in {Rejected} \cup {Fulfilled(VectorRows(s)) : s \in VectorRowSets}
    /\ masterOut \in {Rejected} \cup {Fulfilled(r) : r \in MasterRowSets}
    /\ themeOut \in {Rejected} \cup {Fulfilled(r) : r \in ThemeRowSets}
    /\ llm = "not_called"
    /\ askPc = "received"
    /\ combinedResults = <<>>
    /\ topChunks = <<>>
    /\ response = NoResponse
    /\ fusedAgain = <<>>
    /\ IndexIdle
    /\ IngestIdle
    /\ UtilityIdle

\* router.post('/ask'): Promise.all over the three lookups, fusion, selection,
\* answer generation; any rejection lands in the catch block (status 500)
\* res.json({answer: "Je n'ai pas trouvé d'information pertinente ...",
\*           confidence: 0, sources: [], suggestions})
NoInformation ==
    [status |-> 200, kind |-> "no_info", chunks_used |-> 0, confidence |-> 0, sources |-> <<>>]

\* the handler without its early return on an empty selection
AskWithoutEmptyCheck ==
    /\ askPc = "received"
    /\ askPc' = "responded"
    /\ IF ~(vectorOut.ok /\ masterOut.ok /\ themeOut.ok)
       THEN /\ combinedResults' = <<>>
            /\ topChunks' = <<>>
            /\ llm' = "not_called"
            /\ response' = [status |-> 500, kind |-> "error", chunks_used |-> 0]
       ELSE LET combined == combineSearchResults(masterOut.rows, vectorOut.rows, themeOut.rows)
                top == selectBestChunks(combined, maxContextEnv)
            IN /\ combinedResults' = combined
               /\ topChunks' = top
               /\ \E g \in {"ok", "generation_fails"} :
                       /\ llm' = g
                       /\ response' =
                            IF g = "ok"
                            THEN [status |-> 200, kind |-> "answer", chunks_used |-> Len(top)]
                            ELSE [status |-> 500, kind |-> "error", chunks_used |-> 0]
    /\ UNCHANGED <<maxContextEnv, vectorOut, masterOut, themeOut, fusedAgain>>
    /\ UNCHANGED <<indexVars, ingestVars, utilityVars>>

Ask ==
    /\ askPc = "received"
    /\ askPc' = "responded"
    /\ IF ~(vectorOut.ok /\ masterOut.ok /\ themeOut.ok)
       THEN /\ combinedResults' = <<>>
            /\ topChunks' = <<>>
            /\ llm' = "not_called"
            /\ response' = [status |-> 500, kind |-> "error", chunks_used |-> 0]
       ELSE LET combined == combineSearchResults(masterOut.rows, vectorOut.rows, themeOut.rows)
                top == selectBestChunks(combined, maxContextEnv)
            IN /\ combinedResults' = combined
               /\ topChunks' = top
               /\ IF top = <<>>
                  THEN /\ llm' = "not_called"
                       /\ response' = NoInformation
                  ELSE \E g \in {"ok", "generation_fails"} :
                       /\ llm' = g
                       /\ response' =
                            IF g = "ok"
                            THEN [status |-> 200, kind |-> "answer", chunks_used |-> Len(top)]
                            ELSE [status |-> 500, kind |-> "error", chunks_used |-> 0]
    /\ UNCHANGED <<maxContextEnv, vectorOut, masterOut, themeOut, fusedAgain>>
    /\ UNCHANGED <<indexVars, ingestVars, utilityVars>>

FusionNext == Ask

\* the lengths of the streams handed to combineSearchResults on its own
StreamLengths == 0..2

\* any rows at all: ids may repeat within a stream, in any order of score
AnyVectorRows ==
    UNION {{VectorRows(s) : s \in [1..n -> [id : Ids, score : ScoreSet]]} : n \in StreamLengths}

AnyIndexRows ==
    UNION {{RowsOf(s, TermScore) : s \in [1..n -> Ids]} : n \in StreamLengths}

\* combineSearchResults called on three arrays, outside a request
FuseInit ==
    /\ maxContextEnv = [set |-> FALSE, value |-> 0]
    /\ vectorOut \in {Fulfilled(r) : r \in AnyVectorRows}
    /\ masterOut \in {Fulfilled(r) : r \in AnyIndexRows}
    /\ themeOut \in {Fulfilled(r) : r \in AnyIndexRows}
    /\ llm = "not_called"
    /\ askPc = "fusing"
    /\ combinedResults = <<>>
    /\ topChunks = <<>>
    /\ response = NoResponse
    /\ fusedAgain = <<>>
    /\ IndexIdle
    /\ IngestIdle
    /\ UtilityIdle

\* combineSearchResults([masterResults, vectorResults, themeResults])
Fuse ==
    /\ askPc = "fusing"
    /\ askPc' = "fused"
    /\ combinedResults' = combineSearchResults(masterOut.rows, vectorOut.rows, themeOut.rows)
    /\ UNCHANGED <<maxContextEnv, vectorOut, masterOut, themeOut, llm, topChunks,
                   response, fusedAgain>>
    /\ UNCHANGED <<indexVars, ingestVars, utilityVars>>

\* the same call once more, on the same arrays
FuseAgain ==
    /\ askPc = "fused"
    /\ askPc' = "fused_twice"
    /\ fusedAgain' = combineSearchResults(masterOut.rows, vectorOut.rows, themeOut.rows)
    /\ UNCHANGED <<maxContextEnv, vectorOut, masterOut, themeOut, llm, topChunks,
                   response, combinedResults>>
    /\ UNCHANGED <<indexVars, ingestVars, utilityVars>>

FuseNext ==
    \/ Fuse
    \/ FuseAgain

FuseSpec == FuseInit /\ [][FuseNext]_vars

FusionSpec == FusionInit /\ [][FusionNext]_vars

FusionIdle ==
    /\ maxContextEnv = [set |-> FALSE, value |-> 0]
    /\ vectorOut = Rejected
    /\ masterOut = Rejected
    /\ themeOut = Rejected
    /\ llm = "not_called"
    /\ askPc = "idle"
    /\ combinedResults = <<>>
    /\ topChunks = <<>>
    /\ response = NoResponse
    /\ fusedAgain = <<>>

(***************************************************************************)
(* Rebuilds of the master index, one action per awaited statement.         *)
(***************************************************************************)
IndexInit ==
    /\ FusionIdle
    /\ IngestIdle
    /\ UtilityIdle
    /\ textChunks \in ChunkTables
    /\ conflictTarget \in ConflictTargets
    /\ masterIndex \in {<<>>, EntriesToInsert(SeqOfSet(1..NumIndexChunks), textChunks)}
    /\ initialIndex = masterIndex
    /\ rebuild = [p \in Rebuilders |-> IdleRebuild]
    /\ runs = 0
    /\ observed = masterIndex
    /\ snapshots = <<>>

Finished(p, threw) ==
    /\ rebuild' = [rebuild EXCEPT ![p] = [pc |-> "idle", pending |-> <<>>, threw |-> threw]]
    /\ snapshots' = Append(snapshots, masterIndex')

\* buildIndexFromChunks without its DELETE, counting on the upsert alone
ClearIndexKeepingRows(p) ==
    /\ rebuild[p].pc = "idle"
    /\ runs < MaxRuns
    /\ runs' = runs + 1
    /\ masterIndex' = masterIndex
    /\ rebuild' = [rebuild EXCEPT ![p] = [pc |-> "reading", pending |-> <<>>, threw |-> FALSE]]
    /\ UNCHANGED <<textChunks, conflictTarget, initialIndex, observed, snapshots>>
    /\ UNCHANGED <<fusionVars, ingestVars, utilityVars>>

\* buildIndexFromChunks up to its first await: DELETE FROM master_index
ClearIndex(p) ==
    /\ rebuild[p].pc = "idle"
    /\ runs < MaxRuns
    /\ runs' = runs + 1
    /\ masterIndex' = <<>>
    /\ rebuild' = [rebuild EXCEPT ![p] = [pc |-> "reading", pending |-> <<>>, threw |-> FALSE]]
    /\ UNCHANGED <<textChunks, conflictTarget, initialIndex, observed, snapshots>>
    /\ UNCHANGED <<fusionVars, ingestVars, utilityVars>>

\* the SELECT over text_chunks and the two maps built from its rows
ReadChunks(p) ==
    /\ rebuild[p].pc = "reading"
    /\ \E rows \in RowOrders :
         LET entries == EntriesToInsert(rows, textChunks)
         IN IF entries = <<>>
            THEN /\ masterIndex' = masterIndex
                 /\ Finished(p, FALSE)
            ELSE /\ rebuild' = [rebuild EXCEPT ![p].pc = "inserting", ![p].pending = entries]
                 /\ UNCHANGED <<masterIndex, snapshots>>
    /\ UNCHANGED <<textChunks, conflictTarget, initialIndex, runs, observed>>
    /\ UNCHANGED <<fusionVars, ingestVars, utilityVars>>

\* the store's execution of addIndexEntry's INSERT ... ON CONFLICT
InsertOnConflict(index, entry) ==
    Append(index, entry)

\* one addIndexEntry call; its error is rethrown by buildIndexFromChunks
AddIndexEntry(p) ==
    /\ rebuild[p].pc = "inserting"
    /\ IF conflictTarget = "rejected"
       THEN /\ masterIndex' = masterIndex
            /\ Finished(p, TRUE)
       ELSE /\ masterIndex' = InsertOnConflict(masterIndex, Head(rebuild[p].pending))
            /\ IF Len(rebuild[p].pending) = 1
               THEN Finished(p, FALSE)
               ELSE /\ rebuild' = [rebuild EXCEPT ![p].pending = Tail(@)]
                    /\ UNCHANGED snapshots
    /\ UNCHANGED <<textChunks, conflictTarget, initialIndex, runs, observed>>
    /\ UNCHANGED <<fusionVars, ingestVars, utilityVars>>

\* the process or its connection dies between two statements
Crash(p) ==
    /\ rebuild[p].pc \in {"reading", "inserting"}
    /\ rebuild' = [rebuild EXCEPT ![p] = [pc |-> "crashed", pending |-> <<>>, threw |-> TRUE]]
    /\ UNCHANGED <<textChunks, conflictTarget, masterIndex, initialIndex, runs, observed,
                   snapshots>>
    /\ UNCHANGED <<fusionVars, ingestVars, utilityVars>>

\* a reader's query over master_index (getPopularThemes, searchByTerm)
ReadIndex ==
    /\ observed' = masterIndex
    /\ UNCHANGED <<textChunks, conflictTarget, masterIndex, initialIndex, rebuild, runs,
                   snapshots>>
    /\ UNCHANGED <<fusionVars, ingestVars, utilityVars>>

IndexNext ==
    \/ \E p \in Rebuilders : ClearIndex(p)
    \/ \E p \in Rebuilders : ReadChunks(p)
    \/ \E p \in Rebuilders : AddIndexEntry(p)
    \/ \E p \in Rebuilders : Crash(p)
    \/ ReadIndex

IndexSpec == IndexInit /\ [][IndexNext]_vars

\* one caller running buildIndexFromChunks to its end, again and again
RebuildAgainNext ==
    \/ ClearIndex(1)
    \/ ReadChunks(1)
    \/ AddIndexEntry(1)

RebuildAgainSpec == IndexInit /\ [][RebuildAgainNext]_vars

(***************************************************************************)
(* Importance scores of index terms, as buildIndexFromChunks computes them *)
(* for the entries it inserts.                                             *)
(***************************************************************************)
ScoredTerms == [frequency : 0..MaxFrequency, bookCount : 0..MaxBookCount]

ScoreInit ==
    /\ FusionIdle
    /\ IndexIdle
    /\ IngestIdle
    /\ RetryIdle
    /\ ServiceIdle
    /\ scoreTerms \in [1..2 -> ScoredTerms]
    /\ scoreOut = <<>>

\* importance_score: this.calculateImportanceScore(data.frequency, data.books.size)
ScoreEntries ==
    /\ scoreOut = <<>>
    /\ scoreOut' = [i \in DOMAIN scoreTerms |->
                       calculateImportanceScore(scoreTerms[i].frequency,
                                                scoreTerms[i].bookCount)]
    /\ UNCHANGED <<scoreTerms, retryVars, serviceVars>>
    /\ UNCHANGED <<fusionVars, indexVars, ingestVars>>

ScoreNext == ScoreEntries

ScoreSpec == ScoreInit /\ [][ScoreNext]_vars

(***************************************************************************)
(* Batch runs: ChunkProcessor.processAllFiles over the files of data/raw,  *)
(* SefariaExtractor.extractAll over BRESLOV_BOOKS.                         *)
(***************************************************************************)
\* what a file of data/raw can hold: text that JSON.parse refuses, a payload
\* validateData refuses, a book whose chunking throws (chunkBookData catches
\* and returns []), a book that yields no chunk, a book that yields one
FileKinds == {"malformed", "empty", "chunking_fails", "zero_chunks", "good"}

BatchesOfFiles == UNION {[1..n -> FileKinds] : n \in 1..MaxBatchFiles}

\* processFile: whether it throws, and chunks.length when it does not
processFile(file) ==
    IF file \in {"malformed", "empty"} THEN [threw |-> TRUE, chunks |-> 0]
    ELSE IF file = "good" THEN [threw |-> FALSE, chunks |-> 1]
    ELSE [threw |-> FALSE, chunks |-> 0]

\* the strategies of extractBook, in the order of its methods array
Methods == <<"API_v3", "API_v2", "Section_by_Section", "HTML_Parsing">>

\* what one strategy call comes to: a result validateResult accepts, one it
\* refuses, an exception, or an accepted result that saveRawData fails to write
MethodOutcomes == {"valid", "invalid", "throws", "save_fails"}

\* two of BRESLOV_BOOKS
BooksToExtract == <<"Likutei_Moharan", "Sichot_HaRan">>

RECURSIVE MethodLoopNoReturn(_, _, _, _)
\* the loop of extractBook going on to the next method after a success
MethodLoopNoReturn(bookName, outcomes, i, attempts) ==
    IF i > Len(Methods) THEN [attempts |-> attempts, method |-> "none"]
    ELSE LET tried == Append(attempts, [book |-> bookName, method |-> Methods[i],
                                        outcome |-> outcomes[i]])
         IN IF outcomes[i] = "valid" /\ i = Len(Methods)
            THEN [attempts |-> tried, method |-> Methods[i]]
            ELSE MethodLoopNoReturn(bookName, outcomes, i + 1, tried)

RECURSIVE MethodLoop(_, _, _, _)
\* for (const method of methods) of extractBook: the attempts made, and the
\* method whose result was returned ("none" when the loop ran out)
MethodLoop(bookName, outcomes, i, attempts) ==
    IF i > Len(Methods) THEN [attempts |-> attempts, method |-> "none"]
    ELSE LET tried == Append(attempts, [book |-> bookName, method |-> Methods[i],
                                        outcome |-> outcomes[i]])
         IN IF outcomes[i] = "valid"
            THEN [attempts |-> tried, method |-> Methods[i]]
            ELSE MethodLoop(bookName, outcomes, i + 1, tried)

extractBook(bookName, outcomes) == MethodLoop(bookName, outcomes, 1, <<>>)

BatchInit ==
    /\ FusionIdle
    /\ IndexIdle
    /\ IngestIdle
    /\ ScoreIdle
    /\ RetryIdle
    /\ VectorQueryIdle
    /\ CacheIdle
    /\ LookupIdle
    /\ \/ /\ \E files \in BatchesOfFiles :
                batchRun = [files |-> files, pending |-> files, log |-> <<>>,
                            processedCount |-> 0, totalChunks |-> 0, pc |-> "running"]
          /\ extractRun = NoExtraction
       \/ /\ batchRun = NoBatch
          /\ extractRun = [pending |-> BooksToExtract, attempts |-> <<>>,
                           extracted |-> <<>>, failed |-> <<>>,
                           methods_used |-> <<>>, pc |-> "running"]

\* processAllFiles with no try/catch around processFile
ProcessFileUncaught ==
    /\ batchRun.pc = "running"
    /\ batchRun.pending # <<>>
    /\ LET file == Head(batchRun.pending)
           r == processFile(file)
       IN batchRun' =
            IF r.threw
            THEN [batchRun EXCEPT
                    !.log = Append(@, [file |-> file, outcome |-> "failed", chunks |-> 0]),
                    !.pc = "threw"]
            ELSE [batchRun EXCEPT
                    !.pending = Tail(@),
                    !.log = Append(@, [file |-> file, outcome |-> "processed",
                                       chunks |-> r.chunks]),
                    !.processedCount = @ + 1,
                    !.totalChunks = @ + r.chunks]
    /\ UNCHANGED <<extractRun, vectorQuery, indexCache, termLookup>>
    /\ UNCHANGED <<fusionVars, indexVars, ingestVars, scoreVars, retryVars>>

\* one iteration of "for (const file of jsonFiles)": processFile, and the
\* catch block that logs its error
ProcessFile ==
    /\ batchRun.pc = "running"
    /\ batchRun.pending # <<>>
    /\ LET file == Head(batchRun.pending)
           r == processFile(file)
       IN batchRun' =
            IF r.threw
            THEN [batchRun EXCEPT
                    !.pending = Tail(@),
                    !.log = Append(@, [file |-> file, outcome |-> "failed", chunks |-> 0])]
            ELSE [batchRun EXCEPT
                    !.pending = Tail(@),
                    !.log = Append(@, [file |-> file, outcome |-> "processed",
                                       chunks |-> r.chunks]),
                    !.processedCount = @ + 1,
                    !.totalChunks = @ + r.chunks]
    /\ UNCHANGED <<extractRun, vectorQuery, indexCache, termLookup>>
    /\ UNCHANGED <<fusionVars, indexVars, ingestVars, scoreVars, retryVars>>

\* generateSummary after the loop; an error of its writeFile is rethrown
GenerateSummary ==
    /\ batchRun.pc = "running"
    /\ batchRun.pending = <<>>
    /\ \E written \in BOOLEAN :
         batchRun' = [batchRun EXCEPT !.pc = IF written THEN "completed" ELSE "threw"]
    /\ UNCHANGED <<extractRun, vectorQuery, indexCache, termLookup>>
    /\ UNCHANGED <<fusionVars, indexVars, ingestVars, scoreVars, retryVars>>

\* one iteration of "for (const bookName of BRESLOV_BOOKS)": extractBook, and
\* the catch block that logs its error
ExtractNextBook ==
    /\ extractRun.pc = "running"
    /\ extractRun.pending # <<>>
    /\ \E outcomes \in [DOMAIN Methods -> MethodOutcomes] :
         LET bookName == Head(extractRun.pending)
             r == extractBook(bookName, outcomes)
         IN extractRun' =
              IF r.method # "none"
              THEN [extractRun EXCEPT
                      !.pending = Tail(@),
                      !.attempts = @ \o r.attempts,
                      !.extracted = Append(@, bookName),
                      !.methods_used = Append(@, [book |-> bookName, method |-> r.method])]
              ELSE [extractRun EXCEPT
                      !.pending = Tail(@),
                      !.attempts = @ \o r.attempts,
                      !.failed = Append(@, bookName)]
    /\ UNCHANGED <<batchRun, vectorQuery, indexCache, termLookup>>
    /\ UNCHANGED <<fusionVars, indexVars, ingestVars, scoreVars, retryVars>>

\* saveSummary after the loop; extractAll returns this.results
SaveSummary ==
    /\ extractRun.pc = "running"
    /\ extractRun.pending = <<>>
    /\ \E written \in BOOLEAN :
         extractRun' = [extractRun EXCEPT !.pc = IF written THEN "completed" ELSE "threw"]
    /\ UNCHANGED <<batchRun, vectorQuery, indexCache, termLookup>>
    /\ UNCHANGED <<fusionVars, indexVars, ingestVars, scoreVars, retryVars>>

BatchNext ==
    \/ ProcessFile
    \/ GenerateSummary
    \/ ExtractNextBook
    \/ SaveSummary

BatchSpec == BatchInit /\ [][BatchNext]_vars

(***************************************************************************)
(* src/services/vector-search.js: VectorSearchService.search               *)
(*                                                                         *)
(* Distances and scores are counted in tenths: distance 12 is 1.2, and the *)
(* score 1 - distance is then -0.2.                                        *)
(***************************************************************************)
\* cosine distances (tc.embedding <=> $1) of a stored chunk to the query
DistanceSet == {2, 8, 12}

ScoreOfDistance(distance) == 10 - distance

ThemeColumns == {<<>>, <<"joie">>}

\* text_chunks joined with books: row i belongs to book BookTitleOf(i)
SearchTables ==
    {[i \in 1..NumSearchChunks |->
        [id |-> i, book_title |-> BookTitleOf(i), themes |-> f[i].themes,
         distance |-> f[i].distance, score |-> ScoreOfDistance(f[i].distance)]]
     : f \in [1..NumSearchChunks -> [themes : ThemeColumns, distance : DistanceSet]]}

\* the filters argument: each property absent (Unset) or given
SearchFilters ==
    [books : {[set |-> FALSE, value |-> <<>>], [set |-> TRUE, value |-> <<>>],
              [set |-> TRUE, value |-> <<"Likutei Moharan">>]},
     themes : {[set |-> FALSE, value |-> <<>>], [set |-> TRUE, value |-> <<"joie">>]},
     minScore : {Unset, SetTo(0), SetTo(5)}]

SearchLimits == {1, 2, 10}

\* the WHERE clause search builds: a condition is added for a non-empty
\* books list, a non-empty themes list, and a truthy minScore
MatchesWhere(row, filters) ==
    /\ (filters.books.set /\ Len(filters.books.value) > 0)
          => row.book_title \in Range(filters.books.value)
    /\ (filters.themes.set /\ Len(filters.themes.value) > 0)
          => Range(row.themes) \cap Range(filters.themes.value) # {}
    /\ (filters.minScore.set /\ filters.minScore.value # 0)
          => row.score >= filters.minScore.value

\* the orders ORDER BY tc.embedding <=> $1 can return the rows of ids in: rows
\* of equal distance come in any order
DistanceOrders(table, ids) ==
    {o \in [1..Cardinality(ids) -> ids] :
        /\ \A i, j \in DOMAIN o : i # j => o[i] # o[j]
        /\ \A i, j \in DOMAIN o : i < j => table[o[i]].distance <= table[o[j]].distance}

VectorSearchInit ==
    /\ FusionIdle
    /\ IndexIdle
    /\ IngestIdle
    /\ ScoreIdle
    /\ RetryIdle
    /\ BatchIdle
    /\ CacheIdle
    /\ LookupIdle
    /\ \E table \in SearchTables, filters \in SearchFilters, limit \in SearchLimits :
         vectorQuery = [pc |-> "called", table |-> table, filters |-> filters,
                        limit |-> limit, result |-> <<>>]

\* VectorSearchService.search: the embedding of the query, the SELECT, the
\* mapping of its rows; any error is rethrown as 'Vector search failed'
VectorSearch ==
    /\ vectorQuery.pc = "called"
    /\ \/ vectorQuery' = [vectorQuery EXCEPT !.pc = "threw"]
       \/ LET table == vectorQuery.table
              ids == {i \in DOMAIN table : MatchesWhere(table[i], vectorQuery.filters)}
          IN \E o \in DistanceOrders(table, ids) :
               vectorQuery' =
                 [vectorQuery EXCEPT
                    !.pc = "returned",
                    !.result = [k \in 1..Min(vectorQuery.limit, Len(o)) |-> table[o[k]]]]
    /\ UNCHANGED <<batchVars, indexCache, termLookup>>
    /\ UNCHANGED <<fusionVars, indexVars, ingestVars, scoreVars, retryVars>>

VectorSearchNext == VectorSearch

VectorSearchSpec == VectorSearchInit /\ [][VectorSearchNext]_vars

(***************************************************************************)
(* src/services/database.js: MasterIndexService.indexCache, for one entry  *)
(* of master_index. The clock counts minutes; store is the version of the  *)
(* entry in the table, which every rebuild replaces.                       *)
(***************************************************************************)
\* minutes that pass between two events
Elapsed == {1, CacheTimeoutMinutes}

CacheInit ==
    /\ FusionIdle
    /\ IndexIdle
    /\ IngestIdle
    /\ ScoreIdle
    /\ RetryIdle
    /\ BatchIdle
    /\ VectorQueryIdle
    /\ LookupIdle
    /\ indexCache = [pc |-> "constructed", now |-> 0, store |-> 0,
                     cache |-> <<>>, lookup |-> <<>>]

\* MasterIndexService.init: buildCacheFromDatabase sets the entry with
\* timestamp Date.now() when the SELECT returns its row (importance_score >
\* 0.5); a failed SELECT is logged and leaves the cache empty
InitService ==
    /\ indexCache.pc = "constructed"
    /\ \E cached \in BOOLEAN :
         indexCache' =
            [indexCache EXCEPT
               !.pc = "initialized",
               !.cache = IF cached
                         THEN <<[data |-> indexCache.store, timestamp |-> indexCache.now]>>
                         ELSE <<>>]
    /\ UNCHANGED <<batchVars, vectorQuery, termLookup>>
    /\ UNCHANGED <<fusionVars, indexVars, ingestVars, scoreVars, retryVars>>

\* time passes
ClockAdvances ==
    /\ \E d \in Elapsed :
         /\ indexCache.now + d <= MaxClockMinutes
         /\ indexCache' = [indexCache EXCEPT !.now = @ + d]
    /\ indexCache.pc # "idle"
    /\ UNCHANGED <<batchVars, vectorQuery, termLookup>>
    /\ UNCHANGED <<fusionVars, indexVars, ingestVars, scoreVars, retryVars>>

\* buildIndexFromChunks replaces the rows of master_index; it does not touch
\* indexCache
RebuildIndex ==
    /\ indexCache.pc = "initialized"
    /\ indexCache.store < MaxIndexVersions
    /\ indexCache' = [indexCache EXCEPT !.store = @ + 1]
    /\ UNCHANGED <<batchVars, vectorQuery, termLookup>>
    /\ UNCHANGED <<fusionVars, indexVars, ingestVars, scoreVars, retryVars>>

\* searchByTerm: a SELECT on master_index; indexCache is neither read nor written
SearchByTerm ==
    /\ indexCache.pc = "initialized"
    /\ indexCache' =
         [indexCache EXCEPT
            !.lookup = <<[at |-> indexCache.now, served |-> indexCache.store]>>]
    /\ UNCHANGED <<batchVars, vectorQuery, termLookup>>
    /\ UNCHANGED <<fusionVars, indexVars, ingestVars, scoreVars, retryVars>>

CacheNext ==
    \/ InitService
    \/ ClockAdvances
    \/ RebuildIndex
    \/ SearchByTerm

CacheSpec == CacheInit /\ [][CacheNext]_vars

(***************************************************************************)
(* src/services/database.js: MasterIndexService.searchByTerm over the two  *)
(* rows of master_index whose key_term matches the term.                   *)
(***************************************************************************)
LookupChunkIds == 1..NumLookupChunks

\* a matching row of master_index; related_chunks NULL reads as <<>>
MatchingEntries ==
    [index_type : {"theme", "concept"},
     importance_score : {3000, 10000},
     frequency : {1, 2},
     related_chunks : {SeqOfSet(S) : S \in SUBSET LookupChunkIds}]

\* the indexType argument: null, or a type
IndexTypes == {"null", "theme"}

\* ORDER BY mi.importance_score DESC, mi.frequency DESC
RankedBefore(a, b) ==
    \/ a.importance_score > b.importance_score
    \/ a.importance_score = b.importance_score /\ a.frequency > b.frequency

\* the orders the SELECT on master_index can return the rows in
EntryOrders(rows) ==
    {o \in [1..Len(rows) -> 1..Len(rows)] :
        /\ \A i, j \in DOMAIN o : i # j => o[i] # o[j]
        /\ \A i, j \in DOMAIN o : i < j => ~RankedBefore(rows[o[j]], rows[o[i]])}

RECURSIVE PushRelatedChunks(_, _)
\* for (const row of result.rows) chunkIds.push(...row.related_chunks)
PushRelatedChunks(rows, chunkIds) ==
    IF rows = <<>> THEN chunkIds
    ELSE PushRelatedChunks(Tail(rows), chunkIds \o Head(rows).related_chunks)

\* the orders the SELECT of getChunksByIds (WHERE tc.id = ANY($1), no ORDER
\* BY) can return its rows in: each row once, in any order
RowOrdersOf(chunkIds) ==
    {o \in [1..Cardinality(Range(chunkIds)) -> Range(chunkIds)] :
        \A i, j \in DOMAIN o : i # j => o[i] # o[j]}

LookupInit ==
    /\ FusionIdle
    /\ IndexIdle
    /\ IngestIdle
    /\ ScoreIdle
    /\ RetryIdle
    /\ BatchIdle
    /\ VectorQueryIdle
    /\ CacheIdle
    /\ \E entries \in [1..2 -> MatchingEntries], indexType \in IndexTypes :
         termLookup = [pc |-> "called", entries |-> entries, indexType |-> indexType,
                       chunkIds |-> <<>>, result |-> <<>>]

\* searchByTerm: the SELECT on master_index, the chunk ids of its rows, and
\* getChunksByIds; an error of either query is logged and [] is returned
SearchByTermRanked ==
    /\ termLookup.pc = "called"
    /\ \/ termLookup' = [termLookup EXCEPT !.pc = "returned"]
       \/ LET matched == SelectSeq(termLookup.entries,
                                   LAMBDA en : termLookup.indexType = "null"
                                               \/ en.index_type = termLookup.indexType)
          IN \E eo \in EntryOrders(matched) :
               LET rows == [k \in DOMAIN eo |-> matched[eo[k]]]
                   chunkIds == PushRelatedChunks(rows, <<>>)
               IN \E ro \in RowOrdersOf(chunkIds) :
                    termLookup' = [termLookup EXCEPT
                                     !.pc = "returned",
                                     !.chunkIds = chunkIds,
                                     !.result = ro]
    /\ UNCHANGED <<batchVars, vectorQuery, indexCache>>
    /\ UNCHANGED <<fusionVars, indexVars, ingestVars, scoreVars, retryVars>>

LookupNext == SearchByTermRanked

LookupSpec == LookupInit /\ [][LookupNext]_vars

(***************************************************************************)
(* External API calls: OpenRouterService.generateEmbedding and             *)
(* chatCompletion on the server, fetchWithBackoff in the browser.          *)
(***************************************************************************)
ApiCalls == {"generateEmbedding", "chatCompletion", "fetchWithBackoff"}

\* what one HTTP request comes to: a 2xx answer, 429, 503, or no answer at all
\* (network error, timeout)
RequestOutcomes == {"ok", "throttled", "unavailable", "network_error"}

\* Math.random() * 1000, truncated to milliseconds: a value of [0, 1000)
Jitters == {0, JitterRangeMs \div 2, JitterRangeMs - 1}

RetryInit ==
    /\ FusionIdle
    /\ IndexIdle
    /\ IngestIdle
    /\ ScoreIdle
    /\ ServiceIdle
    /\ \E kind \in ApiCalls :
         apiCall = [kind |-> kind, pc |-> "calling", attempt |-> 0,
                    waits |-> <<>>, failures |-> <<>>]

\* OpenRouterService.generateEmbedding: one axios.post inside try; the catch
\* block logs the error and throws
GenerateEmbedding ==
    /\ apiCall.kind = "generateEmbedding"
    /\ apiCall.pc = "calling"
    /\ \E outcome \in RequestOutcomes :
         apiCall' =
            IF outcome = "ok"
            THEN [apiCall EXCEPT !.pc = "returned"]
            ELSE [apiCall EXCEPT !.pc = "threw",
                                 !.failures = Append(@, outcome),
                                 !.waits = Append(@, 0)]
    /\ UNCHANGED <<scoreVars, serviceVars>>
    /\ UNCHANGED <<fusionVars, indexVars, ingestVars>>

\* OpenRouterService.chatCompletion: one axios.post inside try; the catch
\* block logs the error and throws
ChatCompletion ==
    /\ apiCall.kind = "chatCompletion"
    /\ apiCall.pc = "calling"
    /\ \E outcome \in RequestOutcomes :
         apiCall' =
            IF outcome = "ok"
            THEN [apiCall EXCEPT !.pc = "returned"]
            ELSE [apiCall EXCEPT !.pc = "threw",
                                 !.failures = Append(@, outcome),
                                 !.waits = Append(@, 0)]
    /\ UNCHANGED <<scoreVars, serviceVars>>
    /\ UNCHANGED <<fusionVars, indexVars, ingestVars>>

\* the delay fetchWithBackoff waits after a 429
BackoffDelay(attempt, jitter) == (2 ^ attempt) * BackoffBaseMs + jitter

\* one iteration of the loop of fetchWithBackoff: the request, the wait after
\* a 429, attempt++, and the throw that follows the loop after the last one
FetchAttempt ==
    /\ apiCall.kind = "fetchWithBackoff"
    /\ apiCall.pc = "calling"
    /\ apiCall.attempt < MaxRetriesDefault
    /\ \E outcome \in RequestOutcomes, jitter \in Jitters :
         LET delay == IF outcome = "throttled"
                      THEN BackoffDelay(apiCall.attempt, jitter)
                      ELSE 0
         IN apiCall' =
              IF outcome = "ok"
              THEN [apiCall EXCEPT !.pc = "returned"]
              ELSE [apiCall EXCEPT
                      !.pc = IF apiCall.attempt + 1 < MaxRetriesDefault
                             THEN "calling" ELSE "threw",
                      !.attempt = @ + 1,
                      !.failures = Append(@, outcome),
                      !.waits = Append(@, delay)]
    /\ UNCHANGED <<scoreVars, serviceVars>>
    /\ UNCHANGED <<fusionVars, indexVars, ingestVars>>

RetryNext ==
    \/ GenerateEmbedding
    \/ ChatCompletion
    \/ FetchAttempt

RetrySpec == RetryInit /\ [][RetryNext]_vars

(***************************************************************************)
(* src/services/chunker.js: SemanticChunker                                *)
(*                                                                         *)
(* A text is a sequence of one-character strings.                          *)
(***************************************************************************)
Letters == <<"a", "b", "c", "d", "e", "f">>

\* the i-th word of a section's English text
WordAt(i) == [k \in 1..WordLen |-> Letters[((i - 1) % Len(Letters)) + 1]]

HebrewWord == [k \in 1..WordLen |-> "h"]

\* what stands between two words: a space, a sentence end, a paragraph break
Separators == {<<" ">>, <<".", " ">>, <<"\n", "\n">>}

RECURSIVE TextsOfWords(_)
TextsOfWords(n) ==
    IF n = 0 THEN {<<>>}
    ELSE IF n = 1 THEN {WordAt(1)}
    ELSE {t \o sep \o WordAt(n) : t \in TextsOfWords(n - 1), sep \in Separators}

EnglishTexts == UNION {TextsOfWords(n) : n \in 0..MaxWords}

HebrewTexts == {<<>>, HebrewWord}

\* a section object of the extracted JSON; an absent or empty he / text is <<>>
SectionObjects == [he : HebrewTexts, text : EnglishTexts]

SectionCounts == {1, 2}

Books ==
    {[ref |-> "Likutei Moharan", sections |-> secs] :
        secs \in UNION {[1..n -> SectionObjects] : n \in SectionCounts}}

\* CHUNK_SIZE and OVERLAP_PERCENTAGE as deployed: both unset, a small chunk
\* size with the default overlap, a small chunk size with a large overlap
ChunkerEnvs == {<<Unset, Unset>>, <<SetTo(2), Unset>>, <<SetTo(5), SetTo(80)>>}

\* parseInt(process.env.X) || fallback
ParseIntOr(env, fallback) ==
    IF env.set /\ env.value # 0 THEN env.value ELSE fallback

\* this.chunkSize and this.overlapPercentage
chunkSize == ParseIntOr(chunkSizeEnv, DefaultChunkSize)
overlapPercentage == ParseIntOr(overlapEnv, DefaultOverlapPercentage)

IsSpace(c) == c \in {" ", "\n"}

RECURSIVE TrimStart(_)
TrimStart(t) == IF t # <<>> /\ IsSpace(Head(t)) THEN TrimStart(Tail(t)) ELSE t

RECURSIVE TrimEnd(_)
TrimEnd(t) ==
    IF t # <<>> /\ IsSpace(t[Len(t)]) THEN TrimEnd(SubSeq(t, 1, Len(t) - 1)) ELSE t

\* String.prototype.trim
trim(t) == TrimEnd(TrimStart(t))

RECURSIVE SplitRuns(_, _, _, _, _)
\* String.prototype.split on the regular expression [D]+ : the pieces between
\* maximal runs of characters of D, empty pieces at either end included
SplitRuns(t, D, piece, acc, inRun) ==
    IF t = <<>> THEN Append(acc, piece)
    ELSE IF Head(t) \in D
         THEN IF inRun
              THEN SplitRuns(Tail(t), D, <<>>, acc, TRUE)
              ELSE SplitRuns(Tail(t), D, <<>>, Append(acc, piece), TRUE)
         ELSE SplitRuns(Tail(t), D, Append(piece, Head(t)), acc, FALSE)

\* the last newline of the whitespace run that starts at position i
LastNewline(t, i) ==
    LET runEnd == CHOOSE e \in i..Len(t) :
                      /\ \A k \in i..e : IsSpace(t[k])
                      /\ (e = Len(t) \/ ~IsSpace(t[e + 1]))
        newlines == {j \in i..runEnd : t[j] = "\n"}
    IN CHOOSE j \in newlines : \A k \in newlines : k <= j

RECURSIVE SplitBlankLines(_, _, _, _)
\* String.prototype.split on /\n\s*\n/
SplitBlankLines(t, i, start, acc) ==
    IF i > Len(t) THEN Append(acc, SubSeq(t, start, Len(t)))
    ELSE IF t[i] = "\n" /\ LastNewline(t, i) > i
         THEN LET j == LastNewline(t, i)
              IN SplitBlankLines(t, j + 1, j + 1, Append(acc, SubSeq(t, start, i - 1)))
         ELSE SplitBlankLines(t, i + 1, start, acc)

NotBlank(t) == trim(t) # <<>>

splitIntoParagraphs(t) == SelectSeq(SplitBlankLines(t, 1, 1, <<>>), NotBlank)

splitIntoSentences(t) == SelectSeq(SplitRuns(t, {"."}, <<>>, <<>>, FALSE), NotBlank)

\* content.split(/\s+/)
SplitWords(t) == SplitRuns(t, {" ", "\n"}, <<>>, <<>>, FALSE)

RECURSIVE Join(_, _)
\* Array.prototype.join
Join(pieces, sep) ==
    IF pieces = <<>> THEN <<>>
    ELSE IF Len(pieces) = 1 THEN pieces[1]
    ELSE pieces[1] \o sep \o Join(Tail(pieces), sep)

\* Array.prototype.slice(-k) for k >= 0; -0 is 0, so slice(-0) is the whole array
SliceLast(a, k) ==
    IF k = 0 \/ k >= Len(a) THEN a ELSE SubSeq(a, Len(a) - k + 1, Len(a))

\* Math.ceil(text.length / 4)
estimateTokenCount(t) == (Len(t) + CharsPerToken - 1) \div CharsPerToken

\* a string hebrew or english: appended as it is, after "\n\n" when something
\* precedes it; an absent one adds nothing
combineTexts(hebrew, english) ==
    LET combined == hebrew
    IN IF english = <<>> THEN combined
       ELSE IF combined # <<>> THEN combined \o <<"\n", "\n">> \o english
       ELSE english

\* bookData.sections of the section-by-section format; the final filter keeps
\* every section, since a missing text is replaced by [] and [] is truthy
extractSections(data) ==
    [i \in DOMAIN data.sections |->
        [index |-> i,
         hebrew_text |-> data.sections[i].he,
         english_text |-> data.sections[i].text,
         reference |-> <<data.ref, i>>]]

\* the uuid generator, the clock and the analysis model as one chunkBook call
\* can meet them; a failed analysis is caught and leaves themes empty
RunEnvs ==
    {[uuidSeed |-> 1, now |-> 1, analysis |-> "ok"],
     [uuidSeed |-> 2, now |-> 2, analysis |-> "fails"]}

\* createChunk deriving the reference from the generated id
createChunkIdReference(content, exact_reference, chunk_index, section_index, token_count, is_complete) ==
    [id |-> <<runEnv.uuidSeed, section_index, chunk_index>>,
     content |-> content,
     exact_reference |-> <<runEnv.uuidSeed>> \o exact_reference,
     chunk_index |-> chunk_index,
     paragraph_number |-> section_index + 1,
     token_count |-> IF token_count # 0 THEN token_count ELSE estimateTokenCount(content),
     themes |-> IF runEnv.analysis = "ok" THEN <<"joie">> ELSE <<>>,
     is_complete_section |-> is_complete,
     created_at |-> runEnv.now]

\* uuidv4() is a value fresh for each chunk of the call: the call's seed with
\* the place of the chunk
createChunk(content, exact_reference, chunk_index, section_index, token_count, is_complete) ==
    [id |-> <<runEnv.uuidSeed, section_index, chunk_index>>,
     themes |-> IF runEnv.analysis = "ok" THEN <<"joie">> ELSE <<>>,
     created_at |-> runEnv.now,
     content |-> content,
     exact_reference |-> exact_reference,
     chunk_index |-> chunk_index,
     paragraph_number |-> section_index + 1,
     token_count |-> IF token_count # 0 THEN token_count ELSE estimateTokenCount(content),
     is_complete_section |-> is_complete]

\* the locals of intelligentSplit
SplitState(chunks, currentChunk, currentTokens, chunkIndex) ==
    [chunks |-> chunks, currentChunk |-> currentChunk, currentTokens |-> currentTokens,
     chunkIndex |-> chunkIndex]

\* chunks.push(await this.createChunk({content: currentChunk.trim(), ...})); chunkIndex++
PushCurrent(st, section, sectionIndex) ==
    Append(st.chunks,
           createChunk(trim(st.currentChunk),
                       Append(section.reference, st.chunkIndex + 1),
                       st.chunkIndex, sectionIndex, st.currentTokens, FALSE))

RECURSIVE SentenceLoop(_, _, _, _)
\* for (const sentence of sentences)
SentenceLoop(st, sentences, section, sectionIndex) ==
    IF sentences = <<>> THEN st
    ELSE LET sentence == Head(sentences)
             sentenceTokens == estimateTokenCount(sentence)
             next ==
                IF st.currentTokens + sentenceTokens > chunkSize /\ NotBlank(st.currentChunk)
                THEN SplitState(PushCurrent(st, section, sectionIndex), sentence,
                                sentenceTokens, st.chunkIndex + 1)
                ELSE SplitState(st.chunks,
                                st.currentChunk
                                    \o (IF st.currentChunk # <<>> THEN <<" ">> ELSE <<>>)
                                    \o sentence,
                                st.currentTokens + sentenceTokens, st.chunkIndex)
         IN SentenceLoop(next, Tail(sentences), section, sectionIndex)

RECURSIVE ParagraphLoop(_, _, _, _)
\* for (let i = 0; i < paragraphs.length; i++)
ParagraphLoop(st, paragraphs, section, sectionIndex) ==
    IF paragraphs = <<>> THEN st
    ELSE LET paragraph == Head(paragraphs)
             paragraphTokens == estimateTokenCount(paragraph)
             flushed ==
                IF NotBlank(st.currentChunk)
                THEN SplitState(PushCurrent(st, section, sectionIndex), <<>>, 0,
                                st.chunkIndex + 1)
                ELSE st
             next ==
                IF paragraphTokens > chunkSize
                THEN SentenceLoop(flushed, splitIntoSentences(paragraph), section,
                                  sectionIndex)
                ELSE IF st.currentTokens + paragraphTokens > chunkSize
                        /\ NotBlank(st.currentChunk)
                THEN SplitState(PushCurrent(st, section, sectionIndex), paragraph,
                                paragraphTokens, st.chunkIndex + 1)
                ELSE SplitState(st.chunks,
                                st.currentChunk
                                    \o (IF st.currentChunk # <<>> THEN <<"\n", "\n">>
                                        ELSE <<>>)
                                    \o paragraph,
                                st.currentTokens + paragraphTokens, st.chunkIndex)
         IN ParagraphLoop(next, Tail(paragraphs), section, sectionIndex)

intelligentSplit(fullText, section, sectionIndex) ==
    LET st == ParagraphLoop(SplitState(<<>>, <<>>, 0, 0), splitIntoParagraphs(fullText),
                            section, sectionIndex)
    IN IF NotBlank(st.currentChunk) THEN PushCurrent(st, section, sectionIndex)
       ELSE st.chunks

chunkSection(section, sectionIndex) ==
    LET fullText == combineTexts(section.hebrew_text, section.english_text)
        tokenCount == estimateTokenCount(fullText)
    IN IF ~NotBlank(fullText) THEN <<>>
       ELSE IF tokenCount <= chunkSize
       THEN <<createChunk(fullText, section.reference, 0, sectionIndex, tokenCount, TRUE)>>
       ELSE intelligentSplit(fullText, section, sectionIndex)

RECURSIVE SectionLoop(_, _, _)
\* for (let i = 0; i < sections.length; i++) of chunkBook
SectionLoop(chunks, sections, i) ==
    IF i > Len(sections) THEN chunks
    ELSE SectionLoop(chunks \o chunkSection(sections[i], i - 1), sections, i + 1)

\* Math.floor(overlapTokens / 4) with overlapTokens =
\* Math.floor(this.chunkSize * (this.overlapPercentage / 100))
OverlapWordCount == ((chunkSize * overlapPercentage) \div 100) \div OverlapTokensPerWord

RECURSIVE OverlapLoop(_, _)
\* for (let i = 0; i < chunks.length - 1; i++), i counted from 1
OverlapLoop(chunks, i) ==
    IF i >= Len(chunks) THEN chunks
    ELSE LET currentWords == SplitWords(chunks[i].content)
             overlapWords == SliceLast(currentWords, OverlapWordCount)
             next == IF Len(overlapWords) > 0
                     THEN [chunks EXCEPT
                             ![i + 1].content = Join(overlapWords, <<" ">>) \o <<" ">> \o @,
                             ![i + 1].token_count = @ + Len(overlapWords)]
                     ELSE chunks
         IN OverlapLoop(next, i + 1)

addOverlapBetweenChunks(chunks) == OverlapLoop(chunks, 1)

ChunkerInit ==
    /\ \E env \in ChunkerEnvs :
          /\ chunkSizeEnv = env[1]
          /\ overlapEnv = env[2]
    /\ bookData \in Books
    /\ sectionChunks = <<>>
    /\ bookChunks = <<>>
    /\ chunkerPc = "loaded"
    /\ runEnv \in RunEnvs
    /\ previousChunks = <<>>

\* the body of chunkBook
chunkBook(data) == addOverlapBetweenChunks(SectionLoop(<<>>, extractSections(data), 1))

\* SemanticChunker.chunkBook
ChunkBook ==
    /\ chunkerPc = "loaded"
    /\ sectionChunks' = SectionLoop(<<>>, extractSections(bookData), 1)
    /\ bookChunks' = chunkBook(bookData)
    /\ chunkerPc' = "chunked"
    /\ runEnv' \in RunEnvs
    /\ UNCHANGED <<chunkSizeEnv, overlapEnv, bookData, previousChunks>>
    /\ UNCHANGED <<fusionVars, indexVars, processorVars, storeVars, utilityVars>>

\* SemanticChunker.chunkBook called once more on the same bookData
ChunkBookAgain ==
    /\ chunkerPc = "chunked"
    /\ previousChunks' = bookChunks
    /\ sectionChunks' = SectionLoop(<<>>, extractSections(bookData), 1)
    /\ bookChunks' = chunkBook(bookData)
    /\ chunkerPc' = "chunked_again"
    /\ UNCHANGED <<chunkSizeEnv, overlapEnv, bookData, runEnv>>
    /\ UNCHANGED <<fusionVars, indexVars, processorVars, storeVars, utilityVars>>

(***************************************************************************)
(* src/unnamed/part_007: ChunkProcessor                                    *)
(*                                                                         *)
(* A text is the sequence of the lengths of its sentences; the sentences   *)
(* are separated by ". " and hold no markup.                               *)
(***************************************************************************)
SentenceLengths == {4000, 7000}

ProcTexts == UNION {[1..n -> SentenceLengths] : n \in 1..MaxSentences}

ProcBooks ==
    {[name |-> "likutei-moharan", format |-> "sections", sections |-> secs] :
        secs \in UNION {[1..n -> ProcTexts] : n \in SectionCounts}}
    \cup {[name |-> "likutei-moharan", format |-> "direct", sections |-> <<t>>] :
            t \in ProcTexts}

\* a book of one more section than one INSERT statement takes chunks
LongBook ==
    [name |-> "likutei-moharan", format |-> "sections",
     sections |-> [i \in 1..(BatchSize + 1) |-> <<4000>>]]

\* a later extract of the same book, in a second file of the input directory
LaterExtracts == {b \in ProcBooks : b.format = "sections" /\ Len(b.sections) = 1}

RECURSIVE SumLengths(_)
SumLengths(lens) == IF lens = <<>> THEN 0 ELSE Head(lens) + SumLengths(Tail(lens))

\* the length of the string made of these sentences joined by ". "
TextLength(sentences) ==
    IF sentences = <<>> THEN 0 ELSE SumLengths(sentences) + 2 * (Len(sentences) - 1)

\* Math.ceil(text.length / 4), 0 for an empty text
estimateTokens(sentences) == (TextLength(sentences) + 3) \div 4

SimpleChunkOf(sentences) == [content |-> sentences, tokenCount |-> estimateTokens(sentences)]

RECURSIVE SimpleChunkLoop(_, _, _)
\* for (const sentence of sentences) of simpleChunk, and its final chunk
SimpleChunkLoop(chunks, currentChunk, sentences) ==
    IF sentences = <<>>
    THEN IF currentChunk # <<>> THEN Append(chunks, SimpleChunkOf(currentChunk)) ELSE chunks
    ELSE IF TextLength(currentChunk) + Head(sentences) > TARGET_SIZE
            /\ TextLength(currentChunk) > 0
         THEN SimpleChunkLoop(Append(chunks, SimpleChunkOf(currentChunk)),
                              <<Head(sentences)>>, Tail(sentences))
         ELSE SimpleChunkLoop(chunks, Append(currentChunk, Head(sentences)),
                              Tail(sentences))

simpleChunk(text) ==
    IF text = <<>> THEN <<>>
    ELSE IF TextLength(text) <= TARGET_SIZE THEN <<SimpleChunkOf(text)>>
    ELSE SimpleChunkLoop(<<>>, <<>>, text)

\* the chunk objects chunkSection and chunkDirectText build from simpleChunk's
\* pieces; idPrefix and baseRef are what the two methods differ in
FormatChunks(textChunkSeq, idPrefix, baseRef, sectionNumber) ==
    [i \in DOMAIN textChunkSeq |->
        [id |-> Append(idPrefix, i),
         section_number |-> sectionNumber,
         chunk_number |-> i,
         reference |-> Append(baseRef, i),
         exact_reference |-> baseRef,
         content |-> textChunkSeq[i].content,
         token_count |-> IF textChunkSeq[i].tokenCount # 0
                         THEN textChunkSeq[i].tokenCount
                         ELSE estimateTokens(textChunkSeq[i].content)]]

\* ChunkProcessor.chunkSection
procChunkSection(bookName, sectionText, sectionNumber) ==
    FormatChunks(simpleChunk(sectionText), <<bookName, sectionNumber>>,
                 <<bookName, sectionNumber>>, sectionNumber)

chunkDirectText(bookName, text) ==
    FormatChunks(simpleChunk(text), <<bookName>>, <<bookName>>, 1)

RECURSIVE ProcSectionLoop(_, _, _)
ProcSectionLoop(chunks, book, i) ==
    IF i > Len(book.sections) THEN chunks
    ELSE ProcSectionLoop(chunks \o procChunkSection(book.name, book.sections[i], i),
                         book, i + 1)

chunkBookData(book) ==
    IF book.format = "sections" THEN ProcSectionLoop(<<>>, book, 1)
    ELSE chunkDirectText(book.name, book.sections[1])

ProcessorInit ==
    /\ procBook \in ProcBooks
    /\ procChunks = <<>>
    /\ procPc = "loaded"
    /\ inputDir = <<>>
    /\ chunksTable = <<>>
    /\ saveQueue = <<>>
    /\ saveFailed = FALSE
    /\ tableBefore = <<>>

\* ChunkProcessor.chunkBookData
ChunkBookData ==
    /\ procPc = "loaded"
    /\ procChunks' = chunkBookData(procBook)
    /\ procPc' = "chunked"
    /\ UNCHANGED <<procBook, inputDir, chunksTable, saveQueue, saveFailed, tableBefore>>
    /\ UNCHANGED <<fusionVars, indexVars, chunkerVars, storeVars, utilityVars>>

\* index of the row of the table whose id is id, or 0
RowIndex(table, id) ==
    IF \E i \in DOMAIN table : table[i].id = id
    THEN CHOOSE i \in DOMAIN table : table[i].id = id
    ELSE 0

\* ON CONFLICT (id) DO UPDATE that refreshes token_count alone
ConflictUpdateTokenCount(row, excluded) ==
    [row EXCEPT !.token_count = excluded.token_count]

\* ON CONFLICT (id) DO UPDATE SET content = EXCLUDED.content,
\* token_count = EXCLUDED.token_count, metadata = EXCLUDED.metadata
ConflictUpdate(row, excluded) ==
    [row EXCEPT !.content = excluded.content, !.token_count = excluded.token_count]

\* one INSERT statement over the rows of a batch, whose ids are distinct: the
\* rows whose id is there already are updated in place, the others are added
UpsertAll(table, batch) ==
    [i \in DOMAIN table |->
        LET k == RowIndex(batch, table[i].id)
        IN IF k = 0 THEN table[i] ELSE ConflictUpdate(table[i], batch[k])]
    \o SelectSeq(batch, LAMBDA chunk : RowIndex(table, chunk.id) = 0)

\* saveChunksToDatabase up to its first statement (CREATE TABLE IF NOT EXISTS);
\* with no chunks it returns at once
SaveChunksToDatabase ==
    /\ procPc = "chunked"
    /\ procPc' = IF procChunks = <<>> THEN "saved" ELSE "saving"
    /\ saveQueue' = procChunks
    /\ saveFailed' = FALSE
    /\ tableBefore' = chunksTable
    /\ UNCHANGED <<procBook, procChunks, inputDir, chunksTable>>
    /\ UNCHANGED <<fusionVars, indexVars, chunkerVars, storeVars, utilityVars>>

\* one INSERT statement of the loop over batches; an error ends the loop in the
\* catch block, which logs it and returns
InsertBatch ==
    /\ procPc = "saving"
    /\ LET n == Min(BatchSize, Len(saveQueue))
           batch == SubSeq(saveQueue, 1, n)
           rest == SubSeq(saveQueue, n + 1, Len(saveQueue))
       IN \E outcome \in {"ok", "fails"} :
            IF outcome = "ok"
            THEN /\ chunksTable' = UpsertAll(chunksTable, batch)
                 /\ saveQueue' = rest
                 /\ procPc' = IF rest = <<>> THEN "saved" ELSE "saving"
                 /\ UNCHANGED saveFailed
            ELSE /\ saveFailed' = TRUE
                 /\ saveQueue' = <<>>
                 /\ procPc' = "saved"
                 /\ UNCHANGED chunksTable
    /\ UNCHANGED <<procBook, procChunks, inputDir, tableBefore>>
    /\ UNCHANGED <<fusionVars, indexVars, chunkerVars, storeVars, utilityVars>>

\* processAllFiles goes on to the next file of the directory
ProcessNextFile ==
    /\ procPc = "saved"
    /\ inputDir # <<>>
    /\ procBook' = Head(inputDir)
    /\ inputDir' = Tail(inputDir)
    /\ procChunks' = <<>>
    /\ procPc' = "loaded"
    /\ UNCHANGED <<chunksTable, saveQueue, saveFailed, tableBefore>>
    /\ UNCHANGED <<fusionVars, indexVars, chunkerVars, storeVars, utilityVars>>

\* processAllFiles over a directory of one or two extracts of one book
ProcessorStoreInit ==
    /\ procBook \in ProcBooks \cup {LongBook}
    /\ procChunks = <<>>
    /\ procPc = "loaded"
    /\ inputDir \in {<<>>} \cup {<<b>> : b \in LaterExtracts}
    /\ chunksTable = <<>>
    /\ saveQueue = <<>>
    /\ saveFailed = FALSE
    /\ tableBefore = <<>>

(***************************************************************************)
(* src/services/vector-search.js: storeChunk and storeChunksBatch          *)
(***************************************************************************)
StoreIds == 1..NumStoreIds

\* a chunk as the store sees it; version tells one content from another
StoreChunkOf(id, version) ==
    [id |-> id, exact_reference |-> <<"Likutei Moharan", version, id>>, content |-> <<version>>]

\* the documents given to the store: chunks with distinct ids
StoreInputs ==
    UNION {
        {[i \in 1..n |-> StoreChunkOf(ids[i], "second ingest")] :
            ids \in {f \in [1..n -> StoreIds] : \A i, j \in 1..n : i # j => f[i] # f[j]}}
        : n \in 1..NumStoreIds}

\* text_chunks before the call: empty, or holding chunk 1 of an earlier ingest
StoredBefore == {<<>>, <<StoreChunkOf(1, "first ingest")>>}

VectorStoreInit ==
    /\ storeRows \in StoredBefore
    /\ txRows = <<>>
    /\ storeInput \in StoreInputs
    /\ storePc = "ready"
    /\ storeThrew = FALSE
    /\ storeBefore = storeRows

\* the plain INSERT of storeChunk and storeChunkWithClient: id is the primary
\* key of text_chunks, so a row whose id is there already is refused
InsertRefused(rows, chunk) == RowIndex(rows, chunk.id) # 0

\* VectorSearchService.storeChunk on the first chunk of the input: the
\* embedding call, then the INSERT; any error is rethrown
StoreChunk ==
    /\ storePc = "ready"
    /\ \E outcome \in {"ok", "embedding_fails", "insert_fails"} :
         IF outcome = "ok" /\ ~InsertRefused(storeRows, Head(storeInput))
         THEN /\ storeRows' = Append(storeRows, Head(storeInput))
              /\ storeThrew' = FALSE
         ELSE /\ storeRows' = storeRows
              /\ storeThrew' = TRUE
    /\ storePc' = "done"
    /\ UNCHANGED <<txRows, storeInput, storeBefore>>
    /\ UNCHANGED <<fusionVars, indexVars, chunkerVars, processorVars, utilityVars>>

\* storeChunksBatch: pool.connect() and BEGIN
BeginBatch ==
    /\ storePc = "ready"
    /\ storePc' = "in_transaction"
    /\ txRows' = <<>>
    /\ UNCHANGED <<storeRows, storeInput, storeThrew, storeBefore>>
    /\ UNCHANGED <<fusionVars, indexVars, chunkerVars, processorVars, utilityVars>>

\* one storeChunkWithClient call of the loop, or COMMIT after the last chunk;
\* an error goes to the catch block, which rolls back and rethrows
StoreChunkWithClient ==
    /\ storePc = "in_transaction"
    /\ IF Len(txRows) < Len(storeInput)
       THEN LET chunk == storeInput[Len(txRows) + 1]
            IN \E outcome \in {"ok", "embedding_fails", "insert_fails"} :
                 IF outcome = "ok" /\ ~InsertRefused(storeRows \o txRows, chunk)
                 THEN /\ txRows' = Append(txRows, chunk)
                      /\ UNCHANGED <<storeRows, storePc, storeThrew>>
                 ELSE /\ txRows' = <<>>
                      /\ storePc' = "done"
                      /\ storeThrew' = TRUE
                      /\ UNCHANGED storeRows
       ELSE /\ storeRows' = storeRows \o txRows
            /\ txRows' = <<>>
            /\ storePc' = "done"
            /\ storeThrew' = FALSE
    /\ UNCHANGED <<storeInput, storeBefore>>
    /\ UNCHANGED <<fusionVars, indexVars, chunkerVars, processorVars, utilityVars>>

\* the process or its connection dies inside the transaction: the server
\* aborts it
StoreCrash ==
    /\ storePc = "in_transaction"
    /\ txRows' = <<>>
    /\ storePc' = "done"
    /\ storeThrew' = TRUE
    /\ UNCHANGED <<storeRows, storeInput, storeBefore>>
    /\ UNCHANGED <<fusionVars, indexVars, chunkerVars, processorVars, utilityVars>>

\* chunks are stored, by ChunkProcessor or by VectorSearchService
StoreInit ==
    /\ FusionIdle
    /\ IndexIdle
    /\ ChunkerIdle
    /\ UtilityIdle
    /\ \/ ProcessorStoreInit /\ StoreIdle
       \/ ProcessorIdle /\ VectorStoreInit

StoreNext ==
    \/ ChunkBookData
    \/ SaveChunksToDatabase
    \/ InsertBatch
    \/ ProcessNextFile
    \/ StoreChunk
    \/ BeginBatch
    \/ StoreChunkWithClient
    \/ StoreCrash

StoreSpec == StoreInit /\ [][StoreNext]_vars

\* one book goes through one of the two chunkers
IngestInit ==
    /\ FusionIdle
    /\ IndexIdle
    /\ StoreIdle
    /\ UtilityIdle
    /\ \/ ChunkerInit /\ ProcessorIdle
       \/ ChunkerIdle /\ ProcessorInit

IngestNext ==
    \/ ChunkBook
    \/ ChunkBookData

IngestSpec == IngestInit /\ [][IngestNext]_vars

\* a book chunked, then chunked again
RechunkNext ==
    \/ ChunkBook
    \/ ChunkBookAgain

RechunkInit ==
    /\ FusionIdle
    /\ IndexIdle
    /\ UtilityIdle
    /\ ChunkerInit
    /\ ProcessorIdle
    /\ StoreIdle

RechunkSpec == RechunkInit /\ [][RechunkNext]_vars

(***************************************************************************)
(* Properties of fusion and selection.                                     *)
(***************************************************************************)
RECURSIVE SumTokens(_)
SumTokens(chunks) ==
    IF chunks = <<>> THEN 0 ELSE Head(chunks).token_count + SumTokens(Tail(chunks))

IdsOf(rows) == [i \in DOMAIN rows |-> rows[i].id]

Selected == askPc = "responded" /\ vectorOut.ok /\ masterOut.ok /\ themeOut.ok

CapCutsSelection ==
    /\ Selected
    /\ Len(topChunks) = MaxSelected
    /\ Len(combinedResults) > MaxSelected

\* The scenario of C2: budget 300; similarity search returns A (id 1, 200
\* tokens, 0.9) and B (id 2, 150 tokens, 0.6); theme search returns B; master
\* index routing returns nothing.
C2_Scenario ==
    /\ maxContextEnv = [set |-> TRUE, value |-> 300]
    /\ vectorOut = Fulfilled(<<Row(1, 9), Row(2, 6)>>)
    /\ themeOut = Fulfilled(<<Row(2, TermScore)>>)
    /\ masterOut = Fulfilled(<<>>)
    /\ askPc = "responded"

C2_FusedAB ==
    /\ IdsOf(combinedResults) = <<1, 2>>
    /\ combinedResults[1].score = 9
    /\ combinedResults[2].score = 6 + 2

\* C2 (as claimed): in the scenario, fusion orders [A(0.9), B(0.8)] and
\* selection returns both A and B.
C2_ScenarioSelectsBoth ==
    C2_Scenario => (C2_FusedAB /\ IdsOf(topChunks) = <<1, 2>>)

\* C2 (amended): in the scenario, fusion orders [A(0.9), B(0.8)] and selection
\* returns A alone, because A and B together hold 350 tokens, over the budget
\* of 300.
C2_ScenarioSelectsA ==
    C2_Scenario => (C2_FusedAB /\ IdsOf(topChunks) = <<1>>)

\* C2 witness: the scenario has been answered
C2_ScenarioAnswered == C2_Scenario /\ response.status # 0

Without(rows, id) == SelectSeq(rows, LAMBDA r : r.id # id)

FusedScore(masterResults, vectorResults, themeResults, id) ==
    LET c == combineSearchResults(masterResults, vectorResults, themeResults)
    IN c[MapIndex(c, id)].score

\* C3: a chunk returned by both similarity search and master-index routing has
\* a strictly higher fused score than it would have were it returned by
\* similarity search alone, or by master-index routing alone.
C3_BothStreamsScoreHigher ==
    Selected =>
        \A id \in Range(IdsOf(vectorOut.rows)) \cap Range(IdsOf(masterOut.rows)) :
            LET both == FusedScore(masterOut.rows, vectorOut.rows, themeOut.rows, id)
            IN /\ both > FusedScore(Without(masterOut.rows, id), vectorOut.rows,
                                    themeOut.rows, id)
               /\ both > FusedScore(masterOut.rows, Without(vectorOut.rows, id),
                                    themeOut.rows, id)

\* C4: when some but not all of the three streams fail, the failed streams
\* count as empty, fusion runs on the others and the request does not fail
\* (unless answer generation itself fails).
C4_StreamFailureIsolated ==
    (/\ askPc = "responded"
     /\ ~(vectorOut.ok /\ masterOut.ok /\ themeOut.ok)
     /\ (vectorOut.ok \/ masterOut.ok \/ themeOut.ok)
     /\ llm # "generation_fails")
    => /\ response.status = 200
       /\ combinedResults =
            combineSearchResults(masterOut.rows, vectorOut.rows, themeOut.rows)

(***************************************************************************)
(* Properties of the master index rebuild.                                 *)
(***************************************************************************)
\* the complete indexes a rebuild of the current chunk table can produce
CompleteIndexes == {Range(EntriesToInsert(rows, textChunks)) : rows \in RowOrders}

\* C5: whatever a rebuild is doing, and also after it crashed or failed, a
\* reader of master_index sees the complete previous index or the complete
\* new index, never an empty or partly filled one.
C5_ReadersSeeCompleteIndex ==
    \/ Range(observed) = Range(initialIndex)
    \/ Range(observed) \in CompleteIndexes

\* a reader saw an emptied index although the chunks carry themes
C5_ReaderSawEmptyIndex ==
    /\ observed = <<>>
    /\ initialIndex # <<>>
    /\ {} \notin CompleteIndexes

PairCount(index, term, type) ==
    Cardinality({i \in DOMAIN index :
                    index[i].key_term = term /\ index[i].index_type = type})

EntryScores(index) ==
    {<<index[i].key_term, index[i].index_type, index[i].importance_score,
       PairCount(index, index[i].key_term, index[i].index_type)>> : i \in DOMAIN index}

SingleSentenceOverBudget(content) ==
    /\ Len(splitIntoParagraphs(content)) = 1
    /\ Len(splitIntoSentences(content)) = 1
    /\ estimateTokenCount(content) > chunkSize

\* C8: every chunk chunkBook returns, overlap included, has a token estimate
\* (ceil(length / 4)) of at most 1.2 times the chunk size, unless it was cut
\* as a single sentence that alone exceeds the chunk size.
C8_ChunksWithinTolerance ==
    chunkerPc = "chunked" =>
        \A i \in DOMAIN bookChunks :
            \/ estimateTokenCount(bookChunks[i].content) * 10 <= chunkSize * ToleranceTenths
            \/ SingleSentenceOverBudget(sectionChunks[i].content)

\* a chunk of several paragraphs came out of intelligentSplit above the
\* tolerance before any overlap was added
C8_SplitAboveTolerance ==
    /\ chunkerPc = "chunked"
    /\ \E i \in DOMAIN sectionChunks :
          /\ ~sectionChunks[i].is_complete_section
          /\ Len(splitIntoParagraphs(sectionChunks[i].content)) > 1
          /\ sectionChunks[i].token_count <= chunkSize
          /\ estimateTokenCount(sectionChunks[i].content) * 10 > chunkSize * ToleranceTenths

\* some non-empty end of text a is a start of text b
EndsWithStartOf(a, b) ==
    \E k \in 1..Min(Len(a), Len(b)) :
        SubSeq(a, Len(a) - k + 1, Len(a)) = SubSeq(b, 1, k)

\* C9: when chunkBook returns two or more chunks, every chunk but the last
\* ends with text that stands verbatim at the start of the next chunk; a
\* single chunk is returned as it was cut, without overlap.
C9_OverlapVerbatim ==
    chunkerPc = "chunked" =>
        /\ Len(bookChunks) = 1 => bookChunks = sectionChunks
        /\ \A i \in 1..(Len(bookChunks) - 1) :
              EndsWithStartOf(bookChunks[i].content, bookChunks[i + 1].content)

\* with both variables unset, a chunk holding a paragraph break was followed
\* by a chunk that starts with none of its endings
C9_DefaultOverlapNotVerbatim ==
    /\ chunkerPc = "chunked"
    /\ chunkSizeEnv = Unset
    /\ overlapEnv = Unset
    /\ \E i \in 1..(Len(bookChunks) - 1) :
          ~EndsWithStartOf(bookChunks[i].content, bookChunks[i + 1].content)

DistinctReferences(chunks) ==
    \A i, j \in DOMAIN chunks : i # j => chunks[i].exact_reference # chunks[j].exact_reference

\* C10: no two chunks produced from one document carry the same
\* exact_reference, whether SemanticChunker.chunkBook or ChunkProcessor
\* (chunkSection, chunkDirectText) produced them.
C10_ExactReferenceUnique ==
    /\ DistinctReferences(bookChunks)
    /\ DistinctReferences(procChunks)

\* ChunkProcessor cut one section into two chunks
C10_SectionCutInTwo ==
    /\ procPc = "chunked"
    /\ \E i, j \in DOMAIN procChunks :
          /\ i # j
          /\ procChunks[i].section_number = procChunks[j].section_number

\* the chunks of SemanticChunker.chunkBook alone carry distinct references
SemanticReferencesDistinct == DistinctReferences(bookChunks)
ReferencesOf(chunks) == [i \in DOMAIN chunks |-> chunks[i].exact_reference]

\* C11: chunking the same unchanged book twice with chunkBook gives the same
\* sequence of exact_reference values both times, whatever ids the uuid
\* generator gives, whatever the clock reads and whatever the analysis model
\* answers.
C11_ReferencesStable ==
    chunkerPc = "chunked_again" => ReferencesOf(bookChunks) = ReferencesOf(previousChunks)

\* C11 witness: the second call cut at least two chunks, with other ids, other
\* timestamps and another analysis outcome than the first
C11_RechunkedUnderOtherEnv ==
    /\ chunkerPc = "chunked_again"
    /\ Len(bookChunks) >= 2
    /\ bookChunks[1].id # previousChunks[1].id
    /\ bookChunks[1].created_at # previousChunks[1].created_at
    /\ bookChunks[1].themes # previousChunks[1].themes
(***************************************************************************)
(* Properties of chunk storage.                                            *)
(***************************************************************************)
\* every row of before that is still in after has the reference and content
\* it had
KeepsReferenceAndContent(before, after) ==
    \A i \in DOMAIN before : \A j \in DOMAIN after :
        after[j].id = before[i].id =>
            /\ after[j].exact_reference = before[i].exact_reference
            /\ after[j].content = before[i].content

\* C12: no step of storing chunks changes the exact_reference or the content
\* of a chunk that is stored already, in ChunkProcessor's table chunks or in
\* text_chunks.
C12_StoredChunkUnchanged ==
    [][/\ KeepsReferenceAndContent(chunksTable, chunksTable')
       /\ KeepsReferenceAndContent(storeRows, storeRows')]_vars

\* saveChunksToDatabase ended without an error over a row that was stored
\* with another content
C12_ContentOverwritten ==
    /\ procPc = "saved"
    /\ ~saveFailed
    /\ \E i \in DOMAIN tableBefore : \E j \in DOMAIN chunksTable :
          /\ chunksTable[j].id = tableBefore[i].id
          /\ chunksTable[j].content # tableBefore[i].content

\* storeChunk and storeChunksBatch alone never change a stored row
VectorStoreKeepsRows ==
    [][KeepsReferenceAndContent(storeRows, storeRows')]_vars
\* C16: storing the chunks of one document is all-or-nothing: when storing a
\* chunk of the document fails partway, none of the document's chunks from
\* this ingest remain stored.
C16_DocumentAllOrNothing ==
    /\ (procPc = "saved" /\ saveFailed) => chunksTable = tableBefore
    /\ (storePc = "done" /\ storeThrew) => storeRows = storeBefore

\* C16 witness: the save of a document failed after its first batch was stored
C16_DocumentHalfStored ==
    /\ procPc = "saved"
    /\ saveFailed
    /\ Len(chunksTable) = Len(tableBefore) + BatchSize
    /\ Len(procChunks) > BatchSize

\* storeChunk and storeChunksBatch leave nothing behind when they throw:
\* BEGIN ... COMMIT, with ROLLBACK on error
StoreChunksBatchAllOrNothing ==
    (storePc = "done" /\ storeThrew) => storeRows = storeBefore

\* the chunks chunkSection returned for section k of the book, before overlap
ChunksOfSection(k) == SelectSeq(sectionChunks, LAMBDA c : c.paragraph_number = k)

SectionText(k) ==
    combineTexts(extractSections(bookData)[k].hebrew_text,
                 extractSections(bookData)[k].english_text)

\* the section has text, and its token estimate is at most 1.2 times the chunk size
FitsTolerance(k) ==
    /\ NotBlank(SectionText(k))
    /\ estimateTokenCount(SectionText(k)) * 10 <= chunkSize * ToleranceTenths

\* C20: every section whose token estimate is at most 1.2 times the chunk size
\* is emitted by chunkSection as exactly one chunk, marked as a complete
\* section; only a section above that threshold is split.
C20_SectionWithinToleranceIsOneChunk ==
    chunkerPc = "chunked" =>
        \A k \in DOMAIN bookData.sections :
            FitsTolerance(k) =>
                /\ Len(ChunksOfSection(k)) = 1
                /\ ChunksOfSection(k)[1].is_complete_section

\* C20 witness: a section between the chunk size and 1.2 times the chunk size
\* went through intelligentSplit and came back as a sub-chunk, not marked
\* complete
C20_SectionWithinToleranceSplit ==
    /\ chunkerPc = "chunked"
    /\ \E k \in DOMAIN bookData.sections :
          /\ FitsTolerance(k)
          /\ estimateTokenCount(SectionText(k)) > chunkSize
          /\ ChunksOfSection(k) # <<>>
          /\ \A i \in DOMAIN ChunksOfSection(k) :
                /\ ~ChunksOfSection(k)[i].is_complete_section
                /\ ChunksOfSection(k)[i].exact_reference # extractSections(bookData)[k].reference

\* a section of at most the chunk size is one complete chunk, and a section
\* above it is never marked complete
SectionWithinChunkSizeIsOneChunk ==
    chunkerPc = "chunked" =>
        \A k \in DOMAIN bookData.sections :
            NotBlank(SectionText(k)) =>
                IF estimateTokenCount(SectionText(k)) <= chunkSize
                THEN /\ Len(ChunksOfSection(k)) = 1
                     /\ ChunksOfSection(k)[1].is_complete_section
                ELSE \A i \in DOMAIN ChunksOfSection(k) :
                        ~ChunksOfSection(k)[i].is_complete_section

(***************************************************************************)
(* Properties of combineSearchResults on arbitrary streams.                *)
(***************************************************************************)
Fused == askPc \in {"fused", "fused_twice"}

StreamIds == Range(IdsOf(vectorOut.rows)) \cup Range(IdsOf(masterOut.rows))
                \cup Range(IdsOf(themeOut.rows))

HasDuplicate(rows) == \E i, j \in DOMAIN rows : i # j /\ rows[i].id = rows[j].id

\* C18: the fused list contains each chunk id at most once, and the set of its
\* ids is exactly the union of the ids of the three input streams, whatever
\* duplicates occur within or across the streams.
C18_FusedIdsUniqueAndComplete ==
    Fused =>
        /\ ~HasDuplicate(combinedResults)
        /\ Range(IdsOf(combinedResults)) = StreamIds

\* C18 witness: fused streams with an id repeated inside the similarity stream
\* and again in the two others
C18_DuplicatesFused ==
    /\ Fused
    /\ HasDuplicate(vectorOut.rows)
    /\ HasDuplicate(masterOut.rows)
    /\ Range(IdsOf(vectorOut.rows)) \cap Range(IdsOf(themeOut.rows)) # {}
    /\ Len(combinedResults) = NumIds

BackedOff(i) ==
    /\ apiCall.waits[i] >= (2 ^ (i - 1)) * BackoffBaseMs
    /\ apiCall.waits[i] < (2 ^ (i - 1)) * BackoffBaseMs + JitterRangeMs

\* C17: every external API call (embedding generation, generative completion,
\* the browser's call through fetchWithBackoff) is retried on a transient or
\* throttled failure, with exponential backoff plus jitter, for at most a
\* small fixed number of attempts, and after the last failed attempt it
\* surfaces a failure.
C17_FailuresRetriedWithBackoff ==
    /\ Len(apiCall.failures) <= MaxRetriesDefault
    /\ (apiCall.pc = "threw") = (Len(apiCall.failures) = MaxRetriesDefault)
    /\ \A i \in 1..Len(apiCall.failures) :
          (i < Len(apiCall.failures) \/ apiCall.pc = "returned") => BackedOff(i)

\* C17 witness: generateEmbedding surfaced a failure after one throttled request
C17_EmbeddingFailedUnretried ==
    /\ apiCall.kind = "generateEmbedding"
    /\ apiCall.pc = "threw"
    /\ apiCall.failures = <<"throttled">>

\* a request of fetchWithBackoff that got no answer is repeated at once
FetchRetriedWithoutDelay ==
    /\ apiCall.kind = "fetchWithBackoff"
    /\ Len(apiCall.failures) = 2
    /\ apiCall.failures[1] = "network_error"
    /\ apiCall.waits[1] = 0

\* no call sends more than maxRetries requests, and fetchWithBackoff waits
\* 2^attempt seconds plus jitter after every 429
CallsAreBounded ==
    /\ Len(apiCall.failures) <= MaxRetriesDefault
    /\ apiCall.kind = "fetchWithBackoff" =>
          \A i \in 1..Len(apiCall.failures) :
              apiCall.failures[i] = "throttled" => BackedOff(i)

\* every stream of the request resolved, and none of them returned a chunk
NoStreamReturnedAChunk ==
    /\ vectorOut.ok /\ masterOut.ok /\ themeOut.ok
    /\ vectorOut.rows = <<>> /\ masterOut.rows = <<>> /\ themeOut.rows = <<>>

\* C15: when no stream returns a chunk, fusion and selection return the empty
\* list and the request completes without an error status, with the distinct
\* no-relevant-information response (confidence 0, no sources), and answer
\* generation is never called.
C15_EmptyRetrievalAnswered ==
    (askPc = "responded" /\ NoStreamReturnedAChunk)
    => /\ combinedResults = <<>>
       /\ topChunks = <<>>
       /\ response.status = 200
       /\ response.kind = "no_info"
       /\ response.confidence = 0
       /\ response.sources = <<>>
       /\ llm = "not_called"

\* C15 witness: a request whose three streams all came back empty was answered
C15_EmptyRetrievalResponded == askPc = "responded" /\ NoStreamReturnedAChunk

(***************************************************************************)
(* Properties of the importance score.                                     *)
(***************************************************************************)
\* 0.7 * min(frequency / 10, 1) + 0.3 * min(documents / 5, 1), in ten-thousandths
ClaimedScore(frequency, documents) ==
    (IF frequency >= 10 THEN 7000 ELSE 700 * frequency)
        + (IF documents >= 5 THEN 3000 ELSE 600 * documents)

\* C13: for every frequency >= 0 and every distinct-document count >= 0 the
\* importance score is 0.7 * min(frequency / 10, 1) + 0.3 * min(documents / 5, 1),
\* and it lies within [0, 1].
C13_ScoreFormula ==
    \A i \in DOMAIN scoreOut :
        /\ scoreOut[i] = ClaimedScore(scoreTerms[i].frequency, scoreTerms[i].bookCount)
        /\ scoreOut[i] >= 0
        /\ scoreOut[i] <= 10000

\* C13 witness: a term above both caps and a term below both were scored
C13_ScoredBothSidesOfCaps ==
    /\ scoreOut # <<>>
    /\ scoreTerms[1].frequency > 10 /\ scoreTerms[1].bookCount > 5
    /\ scoreTerms[2].frequency \in 1..9 /\ scoreTerms[2].bookCount \in 1..4

\* C14: a term occurring 10 times across 5 documents scores strictly higher
\* than a term occurring 20 times in 1 document; and of two terms that both
\* occur at least 10 times, the one in more distinct documents (counted up to
\* 5) scores strictly higher, whatever their frequencies.
C14_DocumentsOutweighFrequency ==
    scoreOut # <<>> =>
        /\ (/\ scoreTerms[1] = [frequency |-> 10, bookCount |-> 5]
            /\ scoreTerms[2] = [frequency |-> 20, bookCount |-> 1])
           => scoreOut[1] > scoreOut[2]
        /\ (/\ scoreTerms[1].frequency >= 10
            /\ scoreTerms[2].frequency >= 10
            /\ Min(scoreTerms[1].bookCount, 5) > Min(scoreTerms[2].bookCount, 5))
           => scoreOut[1] > scoreOut[2]

\* C14 witness: the scenario of the claim was scored
C14_ScenarioScored ==
    /\ scoreOut # <<>>
    /\ scoreTerms[1] = [frequency |-> 10, bookCount |-> 5]
    /\ scoreTerms[2] = [frequency |-> 20, bookCount |-> 1]

(***************************************************************************)
(* Properties of the batch runs.                                           *)
(***************************************************************************)
BatchOver == batchRun.pc \in {"completed", "threw"}

\* C21: in a batch run a document that is malformed, empty, fails during
\* chunking or yields zero chunks is skipped and logged, and every remaining
\* document of the batch is still processed: one document's failure never
\* ends the batch.
C21_BatchSurvivesBadDocuments ==
    /\ batchRun.pc = "threw" => batchRun.pending = <<>>
    /\ BatchOver =>
          /\ Len(batchRun.log) = Len(batchRun.files)
          /\ \A i \in DOMAIN batchRun.files :
                /\ batchRun.log[i].file = batchRun.files[i]
                /\ batchRun.files[i] \in {"malformed", "empty"}
                      => batchRun.log[i].outcome = "failed"
                /\ batchRun.files[i] \in {"chunking_fails", "zero_chunks"}
                      => batchRun.log[i] = [file |-> batchRun.files[i],
                                            outcome |-> "processed", chunks |-> 0]
                /\ batchRun.files[i] = "good"
                      => batchRun.log[i] = [file |-> "good", outcome |-> "processed",
                                            chunks |-> 1]
    /\ extractRun.pc \in {"completed", "threw"} =>
          /\ extractRun.pending = <<>>
          /\ \A b \in Range(BooksToExtract) :
                \E i \in DOMAIN extractRun.attempts : extractRun.attempts[i].book = b

\* C21 witness: a batch that began with a malformed file and went on to chunk
\* a good one after it
C21_GoodFileAfterMalformed ==
    /\ batchRun.pc = "completed"
    /\ Len(batchRun.files) = MaxBatchFiles
    /\ batchRun.files[1] = "malformed"
    /\ batchRun.files[2] = "chunking_fails"
    /\ batchRun.files[MaxBatchFiles] = "good"
    /\ batchRun.totalChunks = 1

\* the second book was extracted after every method failed for the first
SecondBookAfterFailedFirst ==
    /\ extractRun.pc = "completed"
    /\ extractRun.failed = <<BooksToExtract[1]>>
    /\ extractRun.extracted = <<BooksToExtract[2]>>

\* the strategy calls extractBook made for book b, in order
AttemptsOf(b) == SelectSeq(extractRun.attempts, LAMBDA a : a.book = b)

Occurrences(seq, x) == Cardinality({i \in DOMAIN seq : seq[i] = x})

\* the books extractBook was called for
BooksTried == {extractRun.attempts[i].book : i \in DOMAIN extractRun.attempts}

\* the strategies were tried in the fixed order, each one only after every
\* earlier one came to one of earlierOutcomes; a valid result ended the call,
\* and the book is failed only when the four strategies came to failedOutcomes
ExtractedInOrder(b, earlierOutcomes, failedOutcomes) ==
    LET tried == AttemptsOf(b)
        last == tried[Len(tried)]
    IN /\ Len(tried) <= Len(Methods)
       /\ \A i \in DOMAIN tried : tried[i].method = Methods[i]
       /\ \A i \in 1..(Len(tried) - 1) : tried[i].outcome \in earlierOutcomes
       /\ Occurrences(extractRun.extracted, b) + Occurrences(extractRun.failed, b) = 1
       /\ IF last.outcome = "valid"
          THEN /\ Occurrences(extractRun.extracted, b) = 1
               /\ [book |-> b, method |-> last.method] \in Range(extractRun.methods_used)
          ELSE /\ Occurrences(extractRun.failed, b) = 1
               /\ Len(tried) = Len(Methods)
               /\ \A i \in DOMAIN tried : tried[i].outcome \in failedOutcomes

LaterStrategyAfterValidResult ==
    /\ Len(extractRun.attempts) >= 2
    /\ extractRun.attempts[1].outcome = "save_fails"
    /\ extractRun.attempts[2].method = "API_v2"

(***************************************************************************)
(* Properties of VectorSearchService.search.                               *)
(***************************************************************************)
\* the row satisfies every filter that was supplied
SatisfiesFilters(row, filters) ==
    /\ (filters.books.set /\ filters.books.value # <<>>)
          => row.book_title \in Range(filters.books.value)
    /\ (filters.themes.set /\ filters.themes.value # <<>>)
          => \E t \in Range(filters.themes.value) : t \in Range(row.themes)
    /\ filters.minScore.set => row.score >= filters.minScore.value

\* at most limit rows, in ascending distance, and nothing closer that passes
\* the test was left out
ClosestRows(Passes(_)) ==
    LET result == vectorQuery.result
        table == vectorQuery.table
    IN /\ Len(result) <= vectorQuery.limit
       /\ \A i \in DOMAIN result : Passes(result[i])
       /\ \A i, j \in DOMAIN result : i < j => result[i].distance <= result[j].distance
       /\ \A i \in DOMAIN table :
             (Passes(table[i]) /\ table[i] \notin Range(result))
                => /\ Len(result) = vectorQuery.limit
                   /\ \A j \in DOMAIN result : result[j].distance <= table[i].distance

\* C22: search returns at most limit chunks, every returned chunk satisfies
\* all supplied filters (document names, themes, minimum score), the results
\* are in ascending distance order, and no chunk that satisfies the filters
\* and is closer than a returned chunk is left out.
C22_SearchReturnsClosestMatching ==
    vectorQuery.pc = "returned" =>
        ClosestRows(LAMBDA row : SatisfiesFilters(row, vectorQuery.filters))

\* C22 witness: a search with minScore 0 returned a chunk of negative score
C22_NegativeScoreReturned ==
    /\ vectorQuery.pc = "returned"
    /\ vectorQuery.filters.minScore = SetTo(0)
    /\ \E i \in DOMAIN vectorQuery.result : vectorQuery.result[i].score < 0

\* search keeps to the conditions it builds: for minScore, when it is not 0
SearchReturnsClosestOfWhere ==
    vectorQuery.pc = "returned" =>
        ClosestRows(LAMBDA row : MatchesWhere(row, vectorQuery.filters))

\* a search under all three filters cut by its limit
FilteredSearchCutByLimit ==
    /\ vectorQuery.pc = "returned"
    /\ vectorQuery.filters.minScore = SetTo(5)
    /\ vectorQuery.filters.themes.set
    /\ vectorQuery.filters.books.value # <<>>
    /\ Len(vectorQuery.result) = 1
    /\ \E i \in DOMAIN vectorQuery.table :
          /\ MatchesWhere(vectorQuery.table[i], vectorQuery.filters)
          /\ vectorQuery.table[i] \notin Range(vectorQuery.result)

(***************************************************************************)
(* Properties of the master-index cache.                                   *)
(***************************************************************************)
\* a lookup was made while the cache held an entry
LookedUpWithEntry ==
    /\ indexCache.pc = "initialized"
    /\ indexCache.lookup # <<>>
    /\ indexCache.cache # <<>>

\* C23: a cache entry older than the TTL (5 minutes) is never served to a term
\* lookup: it is treated as stale and refreshed from the backing store on the
\* next access, after any sequence of lookups, index rebuilds and elapsed time.
\* (Once a lookup was made at some time, the entry the cache holds was
\* refreshed no more than the TTL before that time.)
C23_StaleEntryRefreshedOnAccess ==
    LookedUpWithEntry =>
        indexCache.lookup[1].at - indexCache.cache[1].timestamp <= CacheTimeoutMinutes

\* C23 witness: a lookup made more than 5 minutes after the cache was built,
\* and after a rebuild, left the entry as it was built
C23_StaleEntryKept ==
    /\ LookedUpWithEntry
    /\ indexCache.lookup[1].at > CacheTimeoutMinutes
    /\ indexCache.cache[1] = [data |-> 0, timestamp |-> 0]
    /\ indexCache.store > 0

\* what a lookup serves is never older than the table: no rebuild is missed
LookupServesStore ==
    (indexCache.pc = "initialized" /\ indexCache.lookup # <<>>)
        => indexCache.lookup[1].served <= indexCache.store

(***************************************************************************)
(* Properties of searchByTerm.                                             *)
(***************************************************************************)
\* the index entries the lookup matched
MatchedEntries ==
    {termLookup.entries[i] : i \in
        {k \in DOMAIN termLookup.entries :
            termLookup.indexType = "null"
            \/ termLookup.entries[k].index_type = termLookup.indexType}}

ReachedThrough(chunkId) == {en \in MatchedEntries : chunkId \in Range(en.related_chunks)}

\* chunk a is reached through an entry ranked before every entry chunk b is
\* reached through
StrictlyBetterReached(a, b) ==
    \E ea \in ReachedThrough(a) : \A eb \in ReachedThrough(b) : RankedBefore(ea, eb)

\* C24: a term lookup returns its chunks ranked by the importance score, then
\* by the frequency, of the index entries that matched: a chunk reached
\* through a higher-importance entry never comes after a chunk reached only
\* through a lower-importance entry.
C24_LookupRankedByImportance ==
    termLookup.pc = "returned" =>
        \A i, j \in DOMAIN termLookup.result :
            i < j => ~StrictlyBetterReached(termLookup.result[j], termLookup.result[i])

\* C24 witness: the chunk of the entry of importance 0.3 was returned before
\* the chunk of the entry of importance 1.0
C24_LowImportanceFirst ==
    /\ termLookup.pc = "returned"
    /\ termLookup.chunkIds = <<2, 1>>
    /\ termLookup.result = <<1, 2>>
    /\ termLookup.entries[1].importance_score < termLookup.entries[2].importance_score

\* the chunk ids handed to getChunksByIds are in the order of the ranking,
\* each id counted where it first stands
ChunkIdsRanked ==
    termLookup.pc = "returned" =>
        \A i, j \in DOMAIN termLookup.chunkIds :
            (i < j /\ \A m \in 1..(j - 1) : termLookup.chunkIds[m] # termLookup.chunkIds[j])
                => ~StrictlyBetterReached(termLookup.chunkIds[j], termLookup.chunkIds[i])

(***************************************************************************)
(* Properties of the selection under the token budget.                     *)
(***************************************************************************)
\* C25: selectBestChunks walks the ranked list in order and stops adding at
\* the first chunk whose token count would push the running total over the
\* budget, so the selection is always a prefix of the ranked list: no chunk
\* is selected after a higher-ranked chunk was left out.
C25_SelectionIsPrefix ==
    Selected => topChunks = SubSeq(combinedResults, 1, Len(topChunks))

\* C25 witness: the second chunk of the ranked list was left out for the
\* budget and a later, smaller one was selected
C25_SelectedAfterLeftOut ==
    /\ Selected
    /\ Len(topChunks) >= 2
    /\ topChunks[1] = combinedResults[1]
    /\ topChunks[2] # combinedResults[2]
    /\ SumTokens(topChunks) + combinedResults[2].token_count
          >= MaxTokens(maxContextEnv)

(***************************************************************************)
(* Properties of the chunks of chunkBook: token counts, overlap, ordinals, *)
(* content.                                                                *)
(***************************************************************************)
\* C26: for every chunk chunkBook returns, the recorded token_count equals
\* ceil(length of the chunk's final content / 4), including for chunks that
\* accumulate several paragraphs or sentences and for chunks that received
\* overlap text.
C26_TokenCountMatchesContent ==
    chunkerPc = "chunked" =>
        \A i \in DOMAIN bookChunks :
            bookChunks[i].token_count = estimateTokenCount(bookChunks[i].content)

\* C26 witness: a chunk of two paragraphs, before any overlap, whose recorded
\* token_count is below the estimate of its content
C26_AccumulatedCountTooLow ==
    /\ chunkerPc = "chunked"
    /\ \E i \in DOMAIN sectionChunks :
          /\ Len(splitIntoParagraphs(sectionChunks[i].content)) = 2
          /\ sectionChunks[i].token_count < estimateTokenCount(sectionChunks[i].content)

\* a chunk that received overlap counts one token for each word prepended
OverlapCountedInWords ==
    /\ chunkerPc = "chunked"
    /\ \E i \in DOMAIN bookChunks :
          /\ i > 1
          /\ bookChunks[i].content # sectionChunks[i].content
          /\ bookChunks[i].token_count
                = sectionChunks[i].token_count
                    + Len(SplitWords(bookChunks[i - 1].content))
          /\ bookChunks[i].token_count # estimateTokenCount(bookChunks[i].content)

\* a chunk that is a whole section, first of its book, has the exact count
CompleteFirstChunkCountExact ==
    chunkerPc = "chunked" =>
        \A i \in DOMAIN bookChunks :
            (i = 1 /\ bookChunks[i].is_complete_section)
                => bookChunks[i].token_count = estimateTokenCount(bookChunks[i].content)

\* the number of words addOverlapBetweenChunks put in front of chunk i
PrependedWords(i) ==
    Len(SplitWords(bookChunks[i].content)) - Len(SplitWords(sectionChunks[i].content))

\* chunk i (i > 1) is some trailing words of chunk i - 1, a space, and the
\* chunk as it was cut
IsTrailingPartThenChunk(i) ==
    \E k \in 0..Len(SplitWords(bookChunks[i - 1].content)) :
        LET previousWords == SplitWords(bookChunks[i - 1].content)
            trailing == SubSeq(previousWords, Len(previousWords) - k + 1, Len(previousWords))
        IN  /\ k = PrependedWords(i)
            /\ bookChunks[i].content =
                  IF k = 0 THEN sectionChunks[i].content
                  ELSE Join(trailing, <<" ">>) \o <<" ">> \o sectionChunks[i].content

\* C28: for every configuration of chunk size and overlap percentage, what
\* addOverlapBetweenChunks prepends to chunk i+1 is the trailing part of chunk
\* i and is never more than floor(floor(chunkSize * overlapPercentage / 100) / 4)
\* words of it (so never the whole of a chunk that has more words than that),
\* and the first chunk is never changed.
C28_OverlapAtMostConfiguredWords ==
    chunkerPc = "chunked" /\ bookChunks # <<>> =>
        /\ bookChunks[1] = sectionChunks[1]
        /\ \A i \in 2..Len(bookChunks) :
              /\ IsTrailingPartThenChunk(i)
              /\ PrependedWords(i) <= OverlapWordCount

\* with CHUNK_SIZE=2 and the default 15 percent the configured overlap is 0
\* words, and the whole of the preceding chunk was prepended
C28_WholeChunkPrepended ==
    /\ chunkerPc = "chunked"
    /\ OverlapWordCount = 0
    /\ \E i \in 2..Len(bookChunks) :
          /\ PrependedWords(i) = Len(SplitWords(bookChunks[i - 1].content))
          /\ PrependedWords(i) > OverlapWordCount

\* what holds of the overlap in every configuration: the first chunk is left
\* alone and every later chunk starts with trailing words of its predecessor
OverlapIsTrailingPart ==
    chunkerPc = "chunked" /\ bookChunks # <<>> =>
        /\ bookChunks[1] = sectionChunks[1]
        /\ \A i \in 2..Len(bookChunks) : IsTrailingPartThenChunk(i)

\* a configured overlap of at least one word is respected
PositiveOverlapRespected ==
    chunkerPc = "chunked" /\ OverlapWordCount > 0 =>
        \A i \in 2..Len(bookChunks) : PrependedWords(i) <= OverlapWordCount

\* contextSize of getChunkContext(chunkId, contextSize = 2): the default and
\* the nearest neighbours only
ContextSizes == {1, 2}

\* VectorSearchService.getChunkContext over the rows of one book (every chunk
\* of a document carries book_id = book_metadata.id and is stored with its
\* chunk_index): the positions of the rows WHERE chunk_index BETWEEN
\* max(0, chunk_index - contextSize) AND chunk_index + contextSize
getChunkContext(rows, target, contextSize) ==
    LET chunk_index == rows[target].chunk_index
        minIndex == IF chunk_index - contextSize > 0 THEN chunk_index - contextSize ELSE 0
        maxIndex == chunk_index + contextSize
    IN {j \in DOMAIN rows : rows[j].chunk_index >= minIndex /\ rows[j].chunk_index <= maxIndex}

\* the rows at most contextSize places before or after the target
NeighboursOf(rows, target, contextSize) ==
    {j \in DOMAIN rows : j - target <= contextSize /\ target - j <= contextSize}

\* C29: within one document chunkBook gives every chunk a distinct chunk_index
\* equal to its ordinal position in the document, so that getChunkContext,
\* selecting by chunk_index range within the book, returns only the chunks
\* directly before and after the target.
C29_ChunkIndexIsOrdinal ==
    chunkerPc = "chunked" =>
        /\ \A i \in DOMAIN bookChunks : bookChunks[i].chunk_index = i - 1
        /\ \A i, j \in DOMAIN bookChunks :
              i # j => bookChunks[i].chunk_index # bookChunks[j].chunk_index
        /\ \A target \in DOMAIN bookChunks : \A contextSize \in ContextSizes :
              getChunkContext(bookChunks, target, contextSize)
                  = NeighboursOf(bookChunks, target, contextSize)

\* a document of three chunks, two of them numbered 0: the context of one
\* place around the first chunk holds the third chunk as well
C29_ContextHoldsDistantChunk ==
    /\ chunkerPc = "chunked"
    /\ Len(bookChunks) = 3
    /\ bookChunks[1].chunk_index = 0
    /\ bookChunks[3].chunk_index = 0
    /\ 3 \in getChunkContext(bookChunks, 1, 1)
    /\ 3 \notin NeighboursOf(bookChunks, 1, 1)

\* what the numbering does give: chunk_index counts the chunks of one section
\* from 0, and is 0 for a section that came back as one chunk
ChunkIndexCountsWithinSection ==
    chunkerPc = "chunked" =>
        \A k \in DOMAIN bookData.sections :
            \A i \in DOMAIN ChunksOfSection(k) : ChunksOfSection(k)[i].chunk_index = i - 1

\* a document of one section: there the numbering is the ordinal position and
\* the context is the neighbourhood
SingleSectionContextIsNeighbourhood ==
    chunkerPc = "chunked" /\ Len(bookData.sections) = 1 =>
        \A target \in DOMAIN bookChunks : \A contextSize \in ContextSizes :
            getChunkContext(bookChunks, target, contextSize)
                = NeighboursOf(bookChunks, target, contextSize)

\* the characters of a text that are not whitespace, in order
NonSpace(t) == SelectSeq(t, LAMBDA c : ~IsSpace(c))

RECURSIVE ContentsOf(_)
\* the contents of a list of chunks, one after the other
ContentsOf(chunks) ==
    IF chunks = <<>> THEN <<>>
    ELSE chunks[1].content \o ContentsOf(Tail(chunks))

\* C30: for every non-empty section, the chunks chunkSection produces (before
\* overlap is added) together contain every paragraph and every sentence of
\* the section's combined text exactly once and in the original order: read
\* one after the other, the chunks hold every character of the text that is
\* not whitespace, once and in order.
C30_SectionContentPreserved ==
    chunkerPc = "chunked" =>
        \A k \in DOMAIN bookData.sections :
            NotBlank(SectionText(k)) =>
                NonSpace(ContentsOf(ChunksOfSection(k))) = NonSpace(SectionText(k))

\* a paragraph above the chunk size was split by sentences and the chunks of
\* the section hold fewer characters than its text: the full stop is gone
C30_SentenceEndDropped ==
    /\ chunkerPc = "chunked"
    /\ \E k \in DOMAIN bookData.sections :
          /\ NotBlank(SectionText(k))
          /\ \E i \in DOMAIN SectionText(k) : SectionText(k)[i] = "."
          /\ \A c \in DOMAIN ChunksOfSection(k) :
                \A i \in DOMAIN ChunksOfSection(k)[c].content :
                    ChunksOfSection(k)[c].content[i] # "."
          /\ Len(NonSpace(ContentsOf(ChunksOfSection(k)))) < Len(NonSpace(SectionText(k)))

\* what the split does keep: every character that is neither whitespace nor a
\* sentence ending, once and in order
LettersOf(t) == SelectSeq(t, LAMBDA c : ~IsSpace(c) /\ c # ".")

SectionLettersPreserved ==
    chunkerPc = "chunked" =>
        \A k \in DOMAIN bookData.sections :
            NotBlank(SectionText(k)) =>
                LettersOf(ContentsOf(ChunksOfSection(k))) = LettersOf(SectionText(k))

\* a section whose paragraphs all fit the chunk size loses nothing
SmallParagraphsPreserved ==
    chunkerPc = "chunked" =>
        \A k \in DOMAIN bookData.sections :
            /\ NotBlank(SectionText(k))
            /\ \A j \in DOMAIN splitIntoParagraphs(SectionText(k)) :
                  estimateTokenCount(splitIntoParagraphs(SectionText(k))[j]) <= chunkSize
            => NonSpace(ContentsOf(ChunksOfSection(k))) = NonSpace(SectionText(k))

====
